---- MODULE Spec2Model ----
(***************************************************************************)
(* Verification model of wc3ts (WC3 LAN game proxy over Tailscale).        *)
(*                                                                         *)
(* Part A: the game registry (game/registry.go, game/game.go), the games   *)
(* the probe engine's ingest loop hands to it (peer/manager.go) and the    *)
(* change callback the supervisor wires to it (cmd/wc3ts/run.go).          *)
(*                                                                         *)
(* Spec        one registry call at a time (each call runs under the       *)
(*             registry mutex from its first to its last statement).       *)
(* SpecCaller  Spec plus a caller that writes into the snapshots it was    *)
(*             handed.                                                     *)
(* SpecConc    concurrent tasks calling Add/Remove/Expire, with the mutex  *)
(*             and the callback fan-out as separate steps.                 *)
(*                                                                         *)
(* Further down: the probe engine (SpecManager, SpecIngest), the responder *)
(* and the LAN broadcaster (SpecResponder, SpecLan), and the running       *)
(* daemon (SpecDaemon); each part is introduced where it starts.           *)
(***************************************************************************)
EXTENDS Integers, Sequences, FiniteSets, TLC

(***************************************************************************)
(* Bounds of the model.                                                    *)
(***************************************************************************)
MaxTime == 2          \* the clock runs from 1 to MaxTime
MaxAdds == 2          \* datagrams ingested (buffers allocated) per behaviour
MaxCalls == 3         \* registry calls issued by the concurrent tasks
MaxNodes == 2         \* peers of a network map
MaxLists == 2         \* peer lists the overlay adapter publishes

(***************************************************************************)
(* Program constants and input sets.                                       *)
(***************************************************************************)
ZeroTime == 0         \* the zero value of time.Time (a field never set)
DefaultPort == 6112

Loopback == <<127, 0, 0, 1>>
PeerAddr == <<100, 64, 0, 2>>
Addrs == {Loopback, PeerAddr}
Names == {"g1", "g2"}
HostCounters == {0, 7}
Timeouts == {0, 1}
PeerNames == {"p1"}
Tasks == {"t1", "t2"}

SourceLocal == "local"
SourceRemote == "remote"

\* the zero value of w3gs.GameVersion, and the versions SetVersion is given
ZeroVersion == [Product |-> "", Version |-> 0]
Versions == {[Product |-> "W3XP", Version |-> v] : v \in {0, 26, 27}}

\* the port the TCP proxy's listener is bound to (chosen by the system)
ProxyPort == 40000

NoProbe == [trigger |-> "none", version |-> ZeroVersion, peers |-> <<>>, out |-> <<>>]
NoRecv == [raw |-> <<>>, from |-> <<>>, peers |-> <<>>]
NoTick == [n |-> 0, games |-> <<>>, before |-> <<>>, out |-> <<>>]
\* the proxy before a client connects
NoSession ==
    [pc |-> "listen", sent |-> <<>>, read |-> 0, initial |-> 0, first |-> <<>>, hc |-> -1,
     lookup |-> <<>>, miss |-> FALSE, matches |-> {}, dials |-> <<>>, toOrigin |-> <<>>,
     c2o |-> "idle", o2c |-> "idle", clientEOF |-> FALSE, originEOF |-> FALSE,
     originSent |-> <<>>, toClient |-> <<>>,
     clientWriteClosed |-> FALSE, originWriteClosed |-> FALSE,
     clientClosed |-> FALSE, originClosed |-> FALSE, late |-> FALSE,
     atCancel |-> "none"]

\* the components as startServices leaves them: every Run loop running
Running(loop) == [run |-> "running", sock |-> "open", result |-> "none", loop |-> loop]

NotStarted ==
    [cancelled |-> FALSE,
     manager |-> Running("running"),
     responder |-> Running("running"),
     broadcaster |-> Running("none"),
     proxy |-> Running("running")]

\* the goroutines that take a lock
LockTasks == {"ingest", "sweep", "tick", "responder", "join", "probe"}

\* every goroutine before its first instruction, nothing locked
NoLocks == [at |-> [t \in LockTasks |-> 1], held |-> {}]

\* the goroutines that run probe cycles: Run's ticker and the overlay adapter
ProbeTasks == {"ticker", "discovery"}

NoCycle == [pc |-> "idle", trigger |-> "none", arg |-> <<>>, peers |-> <<>>,
            version |-> ZeroVersion, i |-> 0, out |-> <<>>]

NoCycles == [t \in ProbeTasks |-> NoCycle]

NoNetMap == [nm |-> <<>>, peers |-> <<>>]

NoPeerSlices ==
    [arrays |-> <<>>, mgr |-> 0, ui |-> 0, inbox |-> <<>>, delivered |-> <<>>, pending |-> FALSE,
     todo |-> <<>>, half |-> FALSE, tmp |-> <<>>, snap |-> <<>>, snapped |-> FALSE, at |-> 0]

Nodes == {"A", "B", "C"}

NoNodes ==
    [reg |-> [n \in Nodes |-> <<>>], heap |-> [n \in Nodes |-> <<>>],
     nextBuf |-> [n \in Nodes |-> 1], hosting |-> [n \in Nodes |-> {}], inflight |-> <<>>,
     last |-> [by |-> "", of |-> "", remoteHeld |-> 0, out |-> 0]]

NoReply == [to |-> <<>>, games |-> [k \in {} |-> 0], out |-> <<>>]

VARIABLES
    games,       \* Registry.games: key -> Game
    heap,        \* byte buffers behind the RawData slices: buffer id -> bytes
    nextBuf,     \* next buffer the ingest loop allocates
    now,         \* the clock time.Now() reads
    ret,         \* the last registry call: its arguments and what it returned
    notified,    \* the onChange invocations of the last call (their snapshots)
    lastOp,      \* history: per key, the last operation that touched it
    rawAsAdded,  \* history: per buffer, the bytes it held when it was given to Add
    mu,          \* Registry.mu: "" when free, else the task holding it
    pc,          \* per task: position in its registry call
    call,        \* per task: the call it is executing
    uiMsgs,      \* GamesMsg values sent to the UI program, in order
    bGames,      \* Broadcaster.games
    bLog,        \* history: the lists OnGamesChanged stored, in order
    applied,     \* history: the table after each notified mutation, in order
    peers,       \* Manager.peers
    version,     \* Manager.version
    probe,       \* the last probe cycle: its trigger, what it snapshotted and sent
    recv,        \* history: the last GameInfo the ingest loop took in
    announced,   \* history: per key, the datagram that last announced the game
    previousGameKeys,  \* Broadcaster.previousGameKeys: key -> host counter
    proxyPort,   \* Broadcaster.proxyPort
    tick,        \* the last broadcast tick: its parity, what it read, the packets it wrote
    reply,       \* the last SearchGame the responder served, and what it wrote
    origin,      \* the remote origin: "idle", "hosting" (it answers probes) or "gone"
    sess,        \* the TCP proxy's session: position of handleConnection, bytes moved
    life,        \* the supervisor's context and each component's Run, sockets, result
    lk,          \* the registry and broadcaster locks and the tasks that use them
    cyc,         \* per goroutine of the probe engine: the probe cycle it is running
    disc,        \* the overlay adapter: the last network map and the list published
    pbuf,        \* the peer slices: the backing array behind Manager.peers and the UI's list
    net          \* several nodes: what each hosts and what its registry holds

probeVars == <<peers, version, probe, recv, announced>>
lanVars == <<previousGameKeys, proxyPort, tick, reply>>

extVars == <<cyc, disc, pbuf, net>>

sysVars == <<sess, life, lk, extVars>>

vars == <<games, heap, nextBuf, now, ret, notified, lastOp, rawAsAdded,
          mu, pc, call, uiMsgs, bGames, bLog, applied, probeVars, lanVars, origin, sysVars>>

seqVars == <<ret, notified, probeVars, lanVars, origin, sysVars>>
concVars == <<mu, pc, call, uiMsgs, bGames, bLog, applied, probeVars, lanVars, origin, sysVars>>

(***************************************************************************)
(* Helpers.                                                                *)
(***************************************************************************)
Range(s) == {s[i] : i \in 1..Len(s)}

EmptyTable == [k \in {} |-> 0]

Put(tbl, key, val) == [k \in (DOMAIN tbl) \cup {key} |-> IF k = key THEN val ELSE tbl[k]]

Restrict(tbl, keys) == [k \in keys |-> tbl[k]]

\* every order in which a range over a Go map can visit the keys
Orders(keys) == {s \in [1..Cardinality(keys) -> keys] : Range(s) = keys}

(***************************************************************************)
(* Wire format of a GameInfo datagram, reduced to the fields the program   *)
(* reads: magic, opcode, host counter, game name, slots used, slots         *)
(* available, and the game port in the final two bytes (little-endian).    *)
(***************************************************************************)
NameByte(name) == IF name = "g1" THEN 1 ELSE 2

ByteName(b) == IF b = 1 THEN "g1" ELSE "g2"

GameInfoPacket(name, hc) ==
    <<247, 48, hc, NameByte(name), NameByte(name), 4, DefaultPort % 256, DefaultPort \div 256>>

Deserialize(raw) ==
    [GameName |-> ByteName(raw[4]),
     HostCounter |-> raw[3],
     SlotsUsed |-> raw[5],
     SlotsAvailable |-> raw[6],
     GamePort |-> raw[7] + 256 * raw[8]]

\* the GameInfo datagrams handed to Add: two names, and one name under two
\* host counters
Datagrams == {GameInfoPacket("g1", 7), GameInfoPacket("g2", 7), GameInfoPacket("g1", 0)}

(***************************************************************************)
(* game.Game                                                               *)
(***************************************************************************)
AddrString(ip) ==
    ToString(ip[1]) \o "." \o ToString(ip[2]) \o "." \o ToString(ip[3]) \o "." \o ToString(ip[4])

IsLoopback(ip) == ip[1] = 127

Key(g) ==
    IF g.Source = SourceLocal
    THEN "local:" \o g.Info.GameName
    ELSE AddrString(g.PeerIP) \o ":" \o g.Info.GameName

\* IsStale with the comparison made inclusive
IsStaleInclusive(g, timeout, t) == t - g.LastSeen >= timeout

IsStale(g, timeout, t) == t - g.LastSeen > timeout

\* the Game value handleGameInfo builds for a datagram held in buffer buf
handleGameInfo(raw, buf, addr, peerName) ==
    [Info |-> Deserialize(raw),
     RawData |-> buf,
     Source |-> IF IsLoopback(addr) THEN SourceLocal ELSE SourceRemote,
     PeerIP |-> addr,
     PeerName |-> IF IsLoopback(addr) THEN "local" ELSE peerName,
     FirstSeen |-> ZeroTime,
     LastSeen |-> ZeroTime]

(***************************************************************************)
(* game.Registry: the table operations.                                    *)
(***************************************************************************)
\* the slices snapshot() can return: a copy of every Game struct, in map order
snapshot(tbl) == {[i \in 1..Len(o) |-> tbl[o[i]]] : o \in Orders(DOMAIN tbl)}

\* Add without the LastSeen assignment
AddTableNoLastSeen(tbl, game, t1, t2) ==
    LET key == Key(game)
        g1 == IF key \notin DOMAIN tbl THEN [game EXCEPT !.FirstSeen = t1] ELSE game
    IN  Put(tbl, key, g1)

\* the table after Add(game), where t1 and t2 are the two clock readings
AddTable(tbl, game, t1, t2) ==
    LET key == Key(game)
        g1 == IF key \notin DOMAIN tbl THEN [game EXCEPT !.FirstSeen = t1] ELSE game
        g2 == [g1 EXCEPT !.LastSeen = t2]
    IN  Put(tbl, key, g2)

\* Add reporting every call as an insert
AddReturnsAlways(tbl, game) == TRUE

AddReturns(tbl, game) == Key(game) \notin DOMAIN tbl

\* Remove without the delete
RemoveTableKeeps(tbl, key) == tbl

RemoveTable(tbl, key) == Restrict(tbl, (DOMAIN tbl) \ {key})

\* the table after Expire(timeout) run at time t
ExpireTable(tbl, timeout, t) ==
    Restrict(tbl, {k \in DOMAIN tbl : ~IsStale(tbl[k], timeout, t)})

\* the onChange invocations of one call: Add always notifies, Remove when the
\* key existed, Expire when it removed something; each with snapshot() of the
\* table as it is at that point
\* Add notifying on an insert only
AddNotifiesOnInsert(pre, post) ==
    IF DOMAIN pre = DOMAIN post THEN {<<>>} ELSE {<<s>> : s \in snapshot(post)}

AddNotifies(pre, post) == {<<s>> : s \in snapshot(post)}

\* Remove notifying whether or not the key existed
RemoveNotifiesAlways(exists, post) == {<<s>> : s \in snapshot(post)}

RemoveNotifies(exists, post) == IF exists THEN {<<s>> : s \in snapshot(post)} ELSE {<<>>}

ExpireNotifies(removed, post) == IF removed > 0 THEN {<<s>> : s \in snapshot(post)} ELSE {<<>>}

NoTaskCall == [op |-> "none", game |-> <<>>, key |-> "", timeout |-> 0, out |-> <<>>]

NoCall ==
    [op |-> "none", key |-> "", hc |-> 0, timeout |-> 0, at |-> 0,
     prev |-> "none", pre |-> EmptyTable, ok |-> FALSE, count |-> 0, out |-> <<>>]

\* the buffers some live slice still points to; the others are garbage
Reachable(tbl, out, snaps) ==
    {tbl[k].RawData : k \in DOMAIN tbl}
        \cup {out[i].RawData : i \in 1..Len(out)}
        \cup UNION {{snaps[j][i].RawData : i \in 1..Len(snaps[j])} : j \in 1..Len(snaps)}

Collect(h, tbl, out, snaps) == Restrict(h, (DOMAIN h) \cap Reachable(tbl, out, snaps))

(***************************************************************************)
(* NewRegistry and the other constructors.                                 *)
(***************************************************************************)
Init ==
    /\ games = EmptyTable
    /\ heap = EmptyTable
    /\ nextBuf = 1
    /\ now = 1
    /\ ret = NoCall
    /\ notified = <<>>
    /\ lastOp = [k \in {} |-> "none"]
    /\ rawAsAdded = EmptyTable
    /\ mu = ""
    /\ pc = [t \in Tasks |-> "idle"]
    /\ call = [t \in Tasks |-> NoTaskCall]
    /\ uiMsgs = <<>>
    /\ bGames = <<>>
    /\ bLog = <<>>
    /\ applied = <<>>
    /\ peers = <<>>
    /\ version = ZeroVersion
    /\ probe = NoProbe
    /\ recv = NoRecv
    /\ announced = EmptyTable
    /\ previousGameKeys = EmptyTable
    /\ proxyPort = ProxyPort
    /\ tick = NoTick
    /\ reply = NoReply
    /\ origin = "idle"
    /\ sess = NoSession
    /\ life = NotStarted
    /\ lk = NoLocks
    /\ cyc = NoCycles
    /\ disc = NoNetMap
    /\ pbuf = NoPeerSlices
    /\ net = NoNodes

Prev(key) == IF key \in DOMAIN lastOp THEN lastOp[key] ELSE "none"

(***************************************************************************)
(* Registry.Add, called by the ingest loop for a datagram from addr.       *)
(* On an insert the clock is read twice (FirstSeen, then LastSeen) and may  *)
(* advance by d between the two readings.                                  *)
(***************************************************************************)
Add(raw, addr, peerName, d) ==
    LET game == handleGameInfo(raw, nextBuf, addr, peerName)
        key == Key(game)
        tbl == AddTable(games, game, now, now + d)
    IN  /\ nextBuf <= MaxAdds
        /\ now + d <= MaxTime
        /\ key \in DOMAIN games => d = 0
        /\ heap' = Collect(Put(heap, nextBuf, raw), tbl, <<>>, <<>>)
        /\ rawAsAdded' = Collect(Put(rawAsAdded, nextBuf, raw), tbl, <<>>, <<>>)
        /\ nextBuf' = nextBuf + 1
        /\ now' = now + d
        /\ games' = tbl
        /\ notified' \in AddNotifies(games, tbl)
        /\ ret' = [NoCall EXCEPT !.op = "Add", !.key = key, !.at = now,
                                 !.prev = Prev(key), !.pre = games,
                                 !.ok = AddReturns(games, game)]
        /\ lastOp' = Put(lastOp, key, "add")
        /\ UNCHANGED concVars

(***************************************************************************)
(* Registry.Remove                                                         *)
(***************************************************************************)
Remove(key) ==
    LET exists == key \in DOMAIN games
        tbl == IF exists THEN RemoveTable(games, key) ELSE games
    IN  /\ games' = tbl
        /\ notified' \in RemoveNotifies(exists, tbl)
        /\ ret' = [NoCall EXCEPT !.op = "Remove", !.key = key, !.at = now,
                                 !.prev = Prev(key), !.pre = games, !.ok = exists]
        /\ lastOp' = IF exists THEN Put(lastOp, key, "remove") ELSE lastOp
        /\ heap' = Collect(heap, tbl, <<>>, <<>>)
        /\ rawAsAdded' = Collect(rawAsAdded, tbl, <<>>, <<>>)
        /\ UNCHANGED <<nextBuf, now>>
        /\ UNCHANGED concVars

(***************************************************************************)
(* Registry.Expire                                                         *)
(***************************************************************************)
Expire(timeout) ==
    LET tbl == ExpireTable(games, timeout, now)
        removed == Cardinality(DOMAIN games) - Cardinality(DOMAIN tbl)
    IN  /\ games' = tbl
        /\ notified' \in ExpireNotifies(removed, tbl)
        /\ ret' = [NoCall EXCEPT !.op = "Expire", !.timeout = timeout, !.at = now,
                                 !.pre = games, !.count = removed]
        /\ lastOp' = [k \in DOMAIN lastOp |->
                        IF k \in DOMAIN games /\ k \notin DOMAIN tbl
                        THEN "expire" ELSE lastOp[k]]
        /\ heap' = Collect(heap, tbl, <<>>, <<>>)
        /\ rawAsAdded' = Collect(rawAsAdded, tbl, <<>>, <<>>)
        /\ UNCHANGED <<nextBuf, now>>
        /\ UNCHANGED concVars

(***************************************************************************)
(* The read operations: Games, LocalGames, RemoteGames, FindByHostCounter. *)
(***************************************************************************)
Filtered(tbl, source) == Restrict(tbl, {k \in DOMAIN tbl : tbl[k].Source = source})

\* FindByHostCounter without the source test
FindMatchesAnySource(tbl, hostCounter) ==
    {tbl[k] : k \in {x \in DOMAIN tbl : tbl[x].Info.HostCounter = hostCounter}}

\* the games a range over the map can meet first among those that match
FindMatches(tbl, hostCounter) ==
    {tbl[k] : k \in {x \in DOMAIN tbl :
                        tbl[x].Source = SourceRemote /\ tbl[x].Info.HostCounter = hostCounter}}

Read(op, out) ==
    /\ ret' = [NoCall EXCEPT !.op = op, !.at = now, !.pre = games, !.out = out]
    /\ notified' = <<>>
    /\ heap' = Collect(heap, games, out, <<>>)
    /\ rawAsAdded' = Collect(rawAsAdded, games, out, <<>>)
    /\ UNCHANGED <<games, nextBuf, now, lastOp>>
    /\ UNCHANGED concVars

Games == \E s \in snapshot(games) : Read("Games", s)

LocalGames == \E s \in snapshot(Filtered(games, SourceLocal)) : Read("LocalGames", s)

RemoteGames == \E s \in snapshot(Filtered(games, SourceRemote)) : Read("RemoteGames", s)

FindByHostCounter(hostCounter) ==
    LET m == FindMatches(games, hostCounter)
    IN  /\ \E out \in (IF m = {} THEN {<<>>} ELSE {<<g>> : g \in m}) :
              ret' = [NoCall EXCEPT !.op = "FindByHostCounter", !.hc = hostCounter,
                                    !.at = now, !.pre = games, !.out = out]
        /\ notified' = <<>>
        /\ heap' = Collect(heap, games, <<>>, <<>>)
        /\ rawAsAdded' = Collect(rawAsAdded, games, <<>>, <<>>)
        /\ UNCHANGED <<games, nextBuf, now, lastOp>>
        /\ UNCHANGED concVars

Tick ==
    /\ now < MaxTime
    /\ now' = now + 1
    /\ UNCHANGED <<games, heap, nextBuf, ret, notified, lastOp, rawAsAdded>>
    /\ UNCHANGED concVars

\* the keys a caller can name: one per (address, name) pair
Keys == {Key(handleGameInfo(raw, 0, addr, "")) : raw \in Datagrams, addr \in Addrs}

Next ==
    \/ \E raw \in Datagrams, addr \in Addrs, pn \in PeerNames, d \in 0..1 : Add(raw, addr, pn, d)
    \/ \E key \in Keys : Remove(key)
    \/ \E timeout \in Timeouts : Expire(timeout)
    \/ Games
    \/ LocalGames
    \/ RemoteGames
    \/ \E hc \in HostCounters : FindByHostCounter(hc)
    \/ Tick

Spec == Init /\ [][Next]_vars

(***************************************************************************)
(* A caller of the registry that writes into what it was handed: the slice *)
(* returned by the last read, or the snapshot given to the callback.       *)
(* WriteRaw overwrites the port field (the final two bytes) of a game's    *)
(* RawData in place; WriteField assigns to a field of a Game in the slice. *)
(***************************************************************************)
Handed == {ret.out} \cup Range(notified)

CallerWriteRaw ==
    \E s \in Handed : \E i \in 1..Len(s) :
        LET buf == s[i].RawData
            n == Len(heap[buf])
        IN  /\ heap' = [heap EXCEPT ![buf] = [j \in 1..n |-> IF j > n - 2 THEN 0 ELSE heap[buf][j]]]
            /\ heap' # heap
            /\ UNCHANGED <<games, nextBuf, now, ret, notified, lastOp, rawAsAdded>>
            /\ UNCHANGED concVars

CallerWriteField ==
    \E i \in 1..Len(ret.out) :
        /\ ret.out[i].PeerName # "edited"
        /\ ret' = [ret EXCEPT !.out[i].PeerName = "edited"]
        /\ UNCHANGED <<games, heap, nextBuf, now, notified, lastOp, rawAsAdded>>
        /\ UNCHANGED concVars

NextCaller == Next \/ CallerWriteRaw \/ CallerWriteField

SpecCaller == Init /\ [][NextCaller]_vars

(***************************************************************************)
(* Concurrent callers.  Each task runs one registry call at a time:        *)
(*   Begin      the task enters Add, Remove or Expire (for Add, the ingest *)
(*              loop has copied the datagram into a fresh buffer);         *)
(*   Acquire    r.mu.Lock();                                               *)
(*   Mutate     the statements up to the onChange test;                    *)
(*   SendUI     r.onChange(r.snapshot()) -> onGamesChanged -> program.Send *)
(*   SetGames   ... -> broadcaster.OnGamesChanged;                         *)
(*   Release    the deferred r.mu.Unlock() and the return.                 *)
(* Both clock readings of an Add are taken within its Mutate step.         *)
(***************************************************************************)
\* Lock() returns only when no task holds the mutex
CanLockAlways(m) == TRUE

CanLock(m) == m = ""

InFlight == Cardinality({t \in Tasks : pc[t] # "idle"})

Begin(t, c) ==
    /\ pc[t] = "idle"
    /\ Len(applied) + InFlight < MaxCalls
    /\ call' = [call EXCEPT ![t] = c]
    /\ pc' = [pc EXCEPT ![t] = "lock"]

BeginAdd(t, raw, addr, peerName) ==
    /\ nextBuf <= MaxAdds
    /\ Begin(t, [NoTaskCall EXCEPT !.op = "Add",
                                   !.game = handleGameInfo(raw, nextBuf, addr, peerName)])
    /\ heap' = Put(heap, nextBuf, raw)
    /\ rawAsAdded' = Put(rawAsAdded, nextBuf, raw)
    /\ nextBuf' = nextBuf + 1
    /\ UNCHANGED <<games, now, mu, uiMsgs, bGames, bLog, applied, lastOp>>
    /\ UNCHANGED seqVars

BeginRemove(t, key) ==
    /\ Begin(t, [NoTaskCall EXCEPT !.op = "Remove", !.key = key])
    /\ UNCHANGED <<games, heap, rawAsAdded, nextBuf, now, mu, uiMsgs, bGames, bLog, applied, lastOp>>
    /\ UNCHANGED seqVars

BeginExpire(t, timeout) ==
    /\ Begin(t, [NoTaskCall EXCEPT !.op = "Expire", !.timeout = timeout])
    /\ UNCHANGED <<games, heap, rawAsAdded, nextBuf, now, mu, uiMsgs, bGames, bLog, applied, lastOp>>
    /\ UNCHANGED seqVars

Acquire(t) ==
    /\ pc[t] = "lock"
    /\ CanLock(mu)
    /\ mu' = t
    /\ pc' = [pc EXCEPT ![t] = "locked"]
    /\ UNCHANGED <<games, heap, rawAsAdded, nextBuf, now, call, uiMsgs, bGames, bLog, applied, lastOp>>
    /\ UNCHANGED seqVars

\* the table after the call's mutation, and whether the call notifies
Mutated(c) ==
    IF c.op = "Add" THEN AddTable(games, c.game, now, now)
    ELSE IF c.op = "Remove"
         THEN (IF c.key \in DOMAIN games THEN RemoveTable(games, c.key) ELSE games)
         ELSE ExpireTable(games, c.timeout, now)

Notifies(c) ==
    IF c.op = "Add" THEN AddNotifies(games, Mutated(c)) # {<<>>}
    ELSE IF c.op = "Remove" THEN RemoveNotifies(c.key \in DOMAIN games, Mutated(c)) # {<<>>}
    ELSE ExpireNotifies(Cardinality(DOMAIN games) - Cardinality(DOMAIN Mutated(c)),
                        Mutated(c)) # {<<>>}

Mutate(t) ==
    /\ pc[t] = "locked"
    /\ games' = Mutated(call[t])
    /\ IF Notifies(call[t])
       THEN /\ applied' = Append(applied, Mutated(call[t]))
            /\ pc' = [pc EXCEPT ![t] = "notify"]
       ELSE /\ applied' = applied
            /\ pc' = [pc EXCEPT ![t] = "unlock"]
    /\ UNCHANGED <<heap, rawAsAdded, nextBuf, now, mu, call, uiMsgs, bGames, bLog, lastOp>>
    /\ UNCHANGED seqVars

SendUI(t) ==
    /\ pc[t] = "notify"
    /\ \E s \in snapshot(games) :
          /\ call' = [call EXCEPT ![t].out = s]
          /\ uiMsgs' = Append(uiMsgs, s)
    /\ pc' = [pc EXCEPT ![t] = "notify2"]
    /\ UNCHANGED <<games, heap, rawAsAdded, nextBuf, now, mu, bGames, bLog, applied, lastOp>>
    /\ UNCHANGED seqVars

SetGames(t) ==
    /\ pc[t] = "notify2"
    /\ bGames' = call[t].out
    /\ bLog' = Append(bLog, call[t].out)
    /\ pc' = [pc EXCEPT ![t] = "unlock"]
    /\ UNCHANGED <<games, heap, rawAsAdded, nextBuf, now, mu, call, uiMsgs, applied, lastOp>>
    /\ UNCHANGED seqVars

Release(t) ==
    /\ pc[t] = "unlock"
    /\ mu' = IF mu = t THEN "" ELSE mu
    /\ pc' = [pc EXCEPT ![t] = "idle"]
    /\ call' = [call EXCEPT ![t] = NoTaskCall]
    /\ UNCHANGED <<games, heap, rawAsAdded, nextBuf, now, uiMsgs, bGames, bLog, applied, lastOp>>
    /\ UNCHANGED seqVars

\* the calls the concurrent tasks issue: two games of one peer
ConcDatagrams == {GameInfoPacket(n, 7) : n \in Names}

ConcKeys == {Key(handleGameInfo(raw, 0, PeerAddr, "")) : raw \in ConcDatagrams}

NextConc ==
    \/ \E t \in Tasks, raw \in ConcDatagrams, pn \in PeerNames : BeginAdd(t, raw, PeerAddr, pn)
    \/ \E t \in Tasks, key \in ConcKeys : BeginRemove(t, key)
    \/ \E t \in Tasks : BeginExpire(t, 0)
    \/ \E t \in Tasks : Acquire(t)
    \/ \E t \in Tasks : Mutate(t)
    \/ \E t \in Tasks : SendUI(t)
    \/ \E t \in Tasks : SetGames(t)
    \/ \E t \in Tasks : Release(t)
    \/ Tick

SpecConc == Init /\ [][NextConc]_vars

(***************************************************************************)
(* Properties of the registry, checked under Spec.                         *)
(***************************************************************************)
Entries(tbl) == {tbl[k] : k \in DOMAIN tbl}

\* C1: the keys present are exactly the keys whose last operation was an Add
\* (added and not removed or expired since), and a refreshing Add leaves the
\* key set as it was, with exactly one entry for the key in the snapshot
\* handed to the callback.
C1_KeysAddedMinusRemoved ==
    /\ DOMAIN games = {k \in DOMAIN lastOp : lastOp[k] = "add"}
    /\ (ret.op = "Add" /\ ~ret.ok) =>
          /\ DOMAIN games = DOMAIN ret.pre
          /\ Cardinality({i \in 1..Len(notified[1]) : Key(notified[1][i]) = ret.key}) = 1

C1_Witness ==
    ret.op = "Add" /\ ret.prev = "remove" /\ ret.key \in DOMAIN games

\* C2: Add returns true iff the key was absent immediately before the call,
\* i.e. never added, or removed or expired since its last Add.
C2_AddReturnsNew ==
    ret.op = "Add" => (ret.ok <=> ret.prev # "add")

C2_Witness == ret.op = "Add" /\ ret.prev = "expire" /\ ret.ok

\* C3: a refreshing Add keeps the entry's firstSeen and does not move
\* lastSeen backwards.
C3_FirstSeenPreserved ==
    (ret.op = "Add" /\ ret.key \in DOMAIN ret.pre) =>
        /\ games[ret.key].FirstSeen = ret.pre[ret.key].FirstSeen
        /\ games[ret.key].LastSeen >= ret.pre[ret.key].LastSeen

\* C4: every stored entry has lastSeen >= firstSeen.
C4_LastSeenNotBeforeFirstSeen ==
    \A k \in DOMAIN games : games[k].LastSeen >= games[k].FirstSeen

C4_Witness ==
    \E k \in DOMAIN games :
        games[k].FirstSeen > ZeroTime /\ games[k].LastSeen > games[k].FirstSeen

\* C5: every Add, insert or refresh, invokes the callback exactly once, with
\* a snapshot that holds exactly the entries of the table after the mutation,
\* the added one included.
C5_AddNotifiesOnce ==
    ret.op = "Add" =>
        /\ Len(notified) = 1
        /\ Len(notified[1]) = Cardinality(DOMAIN games)
        /\ Range(notified[1]) = Entries(games)
        /\ ret.key \in DOMAIN games
        /\ games[ret.key] \in Range(notified[1])

C5_Witness ==
    ret.op = "Add" /\ ~ret.ok /\ Len(notified) = 1 /\ games[ret.key] \in Range(notified[1])

\* C6: Remove of a present key deletes it, returns true and notifies once;
\* Remove of an absent key returns false, changes nothing and does not notify.
C6_RemoveContract ==
    ret.op = "Remove" =>
        IF ret.key \in DOMAIN ret.pre
        THEN /\ ret.ok
             /\ DOMAIN games = (DOMAIN ret.pre) \ {ret.key}
             /\ \A k \in DOMAIN games : games[k] = ret.pre[k]
             /\ Len(notified) = 1
        ELSE /\ ~ret.ok
             /\ games = ret.pre
             /\ notified = <<>>

C6_Witness ==
    ret.op = "Remove" /\ ret.ok /\ Len(notified) = 1 /\ DOMAIN games # {}

C10_FindByHostCounter ==
    ret.op = "FindByHostCounter" =>
        /\ (ret.out # <<>>) <=>
              \E k \in DOMAIN games :
                  games[k].Source = SourceRemote /\ games[k].Info.HostCounter = ret.hc
        /\ ret.out # <<>> =>
              /\ ret.out[1] \in Entries(games)
              /\ ret.out[1].Source = SourceRemote
              /\ ret.out[1].Info.HostCounter = ret.hc

C10_Witness ==
    /\ ret.op = "FindByHostCounter"
    /\ ret.out = <<>>
    /\ \E k \in DOMAIN games :
          games[k].Source = SourceLocal /\ games[k].Info.HostCounter = ret.hc

(***************************************************************************)
(* Properties of the snapshots, checked under SpecCaller.                  *)
(***************************************************************************)
\* C8: whatever a caller does to the snapshots it was handed, the registry
\* still reads every stored game as it was given to Add: the same fields and
\* the same raw packet bytes.
C8_SnapshotIndependent ==
    \A k \in DOMAIN games :
        /\ heap[games[k].RawData] = rawAsAdded[games[k].RawData]
        /\ games[k].PeerName # "edited"

(***************************************************************************)
(* Properties of the change notifications, checked under SpecConc.         *)
(***************************************************************************)
SameContents(slice, tbl) ==
    Len(slice) = Cardinality(DOMAIN tbl) /\ Range(slice) = Entries(tbl)

\* C9: notifications are delivered one at a time and in the order of the
\* mutations: the i-th snapshot the UI receives holds the table as the i-th
\* notified mutation left it, the broadcaster is given the same slices in
\* the same order, and once every call has returned nothing is outstanding.
C9_NotificationsInMutationOrder ==
    /\ Cardinality({t \in Tasks : pc[t] \in {"notify", "notify2"}}) <= 1
    /\ Len(uiMsgs) <= Len(applied) /\ Len(applied) <= Len(uiMsgs) + 1
    /\ \A i \in 1..Len(uiMsgs) : SameContents(uiMsgs[i], applied[i])
    /\ Len(bLog) <= Len(uiMsgs) /\ Len(uiMsgs) <= Len(bLog) + 1
    /\ \A i \in 1..Len(bLog) : bLog[i] = uiMsgs[i]
    /\ (\A t \in Tasks : pc[t] = "idle") =>
          /\ Len(bLog) = Len(applied)
          /\ SameContents(bGames, games)

C9_Witness ==
    \E t, u \in Tasks :
        /\ pc[t] = "notify2" /\ pc[u] = "lock"
        /\ Len(uiMsgs) >= 2
        /\ ~SameContents(uiMsgs[1], games)

\* C35: whenever every registry mutation made so far has finished its
\* callback, the list a broadcast tick would read is the registry's contents
\* as that mutation left them: no tick broadcasts from an older snapshot.
C35_CachedListIsLatestSnapshot ==
    (\A t \in Tasks : pc[t] \notin {"notify", "notify2"}) =>
        /\ Len(bGames) = Cardinality(DOMAIN games)
        /\ \A k \in DOMAIN games : \E i \in 1..Len(bGames) : bGames[i] = games[k]
        /\ Len(applied) > 0 => bGames = bLog[Len(applied)]

C35_Witness ==
    /\ Len(applied) = 3
    /\ \E t \in Tasks : pc[t] = "unlock"
    /\ Len(bGames) = 1
    /\ Len(bLog[1]) = 1 /\ Len(bLog[2]) = 2
    /\ bLog[1][1] # bGames[1]

(***************************************************************************)
(* Part C: the probe engine (peer/manager.go).                             *)
(*                                                                         *)
(* SpecManager  the probing side, one call at a time: SetVersion and the   *)
(*              three probe triggers (Run's ticker, Refresh and            *)
(*              OnPeersChanged).                                           *)
(* SpecIngest   the ingest side: iterations of receiveLoop, with the peer  *)
(*              list changing under it through OnPeersChanged.             *)
(***************************************************************************)
regVars == <<games, heap, nextBuf, now, ret, notified, lastOp, rawAsAdded>>
taskVars == <<mu, pc, call, uiMsgs, bLog, applied, sysVars>>

Peer(name, ip, online) == [Name |-> name, IP |-> ip, Online |-> online]

PeerAddr2 == <<100, 64, 0, 3>>

\* the lists discovery hands to OnPeersChanged
PeerLists ==
    {<<>>,
     <<Peer("p1", PeerAddr, TRUE)>>,
     <<Peer("p2", PeerAddr2, FALSE), Peer("p1", PeerAddr, TRUE)>>,
     <<Peer("p1", PeerAddr, FALSE), Peer("p2", PeerAddr2, TRUE)>>}

UDPAddr(ip, port) == [IP |-> ip, Port |-> port]

SearchGame(v) == [GameVersion |-> v, HostCounter |-> 0]

probeLocal(v) == [to |-> UDPAddr(Loopback, DefaultPort), pkt |-> SearchGame(v)]

probePeer(peerIP, v) == [to |-> UDPAddr(peerIP, DefaultPort), pkt |-> SearchGame(v)]

\* the probe loop without the Online test
EveryPeer(ps) == ps

\* the entries of a peer list the probe loop sends to, in list order
OnlinePeers(ps) == SelectSeq(ps, LAMBDA p : p.Online)

\* probeAllPeers without the version test
probeAllPeersUnchecked(ps, v) ==
    <<probeLocal(v)>> \o [i \in 1..Len(OnlinePeers(ps)) |-> probePeer(OnlinePeers(ps)[i].IP, v)]

\* the datagrams one probe cycle writes, given the snapshot it took
probeAllPeers(ps, v) ==
    IF v.Version = 0
    THEN <<>>
    ELSE <<probeLocal(v)>> \o [i \in 1..Len(OnlinePeers(ps)) |-> probePeer(OnlinePeers(ps)[i].IP, v)]

SetVersion(v) ==
    /\ version' = v
    /\ UNCHANGED <<peers, probe, recv, announced, bGames, origin>>
    /\ UNCHANGED <<regVars, taskVars, lanVars>>

Cycle(trigger, ps) ==
    /\ probe' = [trigger |-> trigger, version |-> version, peers |-> ps,
                 out |-> probeAllPeers(ps, version)]
    /\ UNCHANGED <<version, recv, announced, bGames, origin>>
    /\ UNCHANGED <<regVars, taskVars, lanVars>>

\* Run: one tick of the probe ticker
ProbeTick == Cycle("tick", peers) /\ peers' = peers

Refresh == Cycle("Refresh", peers) /\ peers' = peers

OnPeersChanged(list) == peers' = list /\ Cycle("OnPeersChanged", list)

(***************************************************************************)
(* receiveLoop: one iteration.  ReadFrom overwrites the head of the shared *)
(* receive buffer (heap[RecvBuf], modelled by the prefix written so far);  *)
(* the datagram is copied to a fresh buffer, decoded, and a GameInfo is    *)
(* handed to handleGameInfo, which classifies it and calls Registry.Add.   *)
(***************************************************************************)
RecvBuf == 0

ReadFrom(buf, datagram) == datagram \o SubSeq(buf, Len(datagram) + 1, Len(buf))

\* w3gs.Deserialize succeeds and yields a *w3gs.GameInfo
IsGameInfo(raw) == Len(raw) = Len(GameInfoPacket("g1", 0)) /\ raw[1] = 247 /\ raw[2] = 48

\* a SearchGame query and a datagram too short to decode
OtherDatagrams == {<<247, 47, 26, 0>>, <<1, 2>>}

MgrDatagrams == {GameInfoPacket("g1", 7), GameInfoPacket("g2", 7), GameInfoPacket("g1", 0)}

\* the ingest loop storing the slice of the receive buffer itself
rawDataShared(fresh) == RecvBuf

\* the buffer the stored game's RawData points to: the fresh copy
rawData(fresh) == fresh

\* findPeerName without the address comparison
findPeerNameFirst(ps, ip) == IF ps = <<>> THEN "" ELSE ps[1].Name

\* the name of the first peer of the list with this address, else ""
findPeerName(ps, ip) ==
    LET m == {i \in 1..Len(ps) : ps[i].IP = ip}
    IN  IF m = {} THEN "" ELSE ps[CHOOSE i \in m : \A j \in m : i <= j].Name

receiveLoop(datagram, addr) ==
    LET buf == ReadFrom(IF RecvBuf \in DOMAIN heap THEN heap[RecvBuf] ELSE <<>>, datagram)
        raw == SubSeq(buf, 1, Len(datagram))
        game == handleGameInfo(raw, rawData(nextBuf), addr, findPeerName(peers, addr))
        key == Key(game)
        tbl == AddTable(games, game, now, now)
    IN  /\ nextBuf <= MaxAdds
        /\ nextBuf' = nextBuf + 1
        /\ IF IsGameInfo(raw)
           THEN /\ games' = tbl
                /\ heap' = Put(Collect(Put(heap, nextBuf, raw), tbl, <<>>, <<>>), RecvBuf, buf)
                /\ rawAsAdded' = Collect(Put(rawAsAdded, nextBuf, raw), tbl, <<>>, <<>>)
                /\ notified' \in AddNotifies(games, tbl)
                /\ ret' = [NoCall EXCEPT !.op = "Add", !.key = key, !.at = now,
                                         !.prev = Prev(key), !.pre = games,
                                         !.ok = AddReturns(games, game)]
                /\ lastOp' = Put(lastOp, key, "add")
                /\ recv' = [raw |-> datagram, from |-> addr, peers |-> peers]
                /\ announced' = Put(announced, key, datagram)
           ELSE /\ heap' = Put(heap, RecvBuf, buf)
                /\ UNCHANGED <<games, rawAsAdded, notified, ret, lastOp, recv, announced>>
        /\ UNCHANGED <<now, peers, version, probe, bGames, origin>>
        /\ UNCHANGED <<taskVars, lanVars>>

NextManager ==
    \/ \E v \in Versions : SetVersion(v)
    \/ ProbeTick
    \/ Refresh
    \/ \E list \in PeerLists : OnPeersChanged(list)

SpecManager == Init /\ [][NextManager]_vars

NextIngest ==
    \/ \E list \in PeerLists : OnPeersChanged(list)
    \/ \E datagram \in MgrDatagrams \cup OtherDatagrams, addr \in Addrs : receiveLoop(datagram, addr)

SpecIngest == Init /\ [][NextIngest]_vars

(***************************************************************************)
(* Claims about the probe engine (SpecManager, SpecIngest).                *)
(***************************************************************************)
\* the number of datagrams of a cycle written to address ip, port DefaultPort
SentTo(out, ip) == Cardinality({i \in 1..Len(out) : out[i].to = UDPAddr(ip, DefaultPort)})

\* C11: while the version is zero no probe trigger (ticker, Refresh,
\* OnPeersChanged) writes a SearchGame, to loopback or to a peer; a trigger that
\* runs with a non-zero version set by SetVersion writes again.
C11_VersionZeroSuppressesProbing ==
    /\ probe.version.Version = 0 => probe.out = <<>>
    /\ (probe.trigger # "none" /\ probe.version.Version # 0) => probe.out # <<>>

C11_Witness ==
    /\ probe.trigger = "tick"
    /\ probe.version = [Product |-> "W3XP", Version |-> 0]
    /\ \E i \in 1..Len(probe.peers) : probe.peers[i].Online

\* C12: a probe cycle with a non-zero version sends exactly one SearchGame to
\* 127.0.0.1:6112 and exactly one to peer.IP:6112 per online peer of the
\* snapshotted list, none to an offline peer, and every query carries the
\* snapshotted version and host counter 0.
C12_ProbeCycleTargets ==
    (probe.trigger # "none" /\ probe.version.Version # 0) =>
        /\ SentTo(probe.out, Loopback) = 1
        /\ \A ip \in {PeerAddr, PeerAddr2} :
              SentTo(probe.out, ip) =
                  Cardinality({i \in 1..Len(probe.peers) :
                                  probe.peers[i].IP = ip /\ probe.peers[i].Online})
        /\ \A i \in 1..Len(probe.out) :
              /\ probe.out[i].to.Port = DefaultPort
              /\ probe.out[i].to.IP \in {Loopback, PeerAddr, PeerAddr2}
              /\ probe.out[i].pkt.GameVersion = probe.version
              /\ probe.out[i].pkt.HostCounter = 0

C12_Witness ==
    /\ probe.trigger = "Refresh"
    /\ probe.version.Version = 26
    /\ Len(probe.peers) = 2
    /\ Len(probe.out) = 2

\* C13: a GameInfo from loopback is stored with source Local under
\* "local:" + name, with no peer address and no peer name.
C13_LoopbackStoredWithoutPeer ==
    (recv.raw # <<>> /\ IsLoopback(recv.from)) =>
        LET key == "local:" \o ByteName(recv.raw[4])
        IN  /\ key \in DOMAIN games
            /\ games[key].Source = SourceLocal
            /\ games[key].PeerIP = <<>>
            /\ games[key].PeerName = ""

C15_RawIsTheDatagram ==
    \A key \in DOMAIN games :
        /\ heap[games[key].RawData] # <<>>
        /\ heap[games[key].RawData] = announced[key]

C15_Witness ==
    \E key \in DOMAIN games :
        /\ heap[RecvBuf] # announced[key]
        /\ heap[games[key].RawData] = announced[key]

(***************************************************************************)
(* Parts D and E: the responder (peer/manager.go) and the LAN broadcaster. *)
(*                                                                         *)
(* SpecLan        the registry with the supervisor's callback wired to     *)
(*                Broadcaster.OnGamesChanged: ingested games are added and *)
(*                removed, and the broadcast ticker fires.                 *)
(* SpecResponder  the registry and the responder: games are added (as      *)
(*                ingested, or by a direct Registry.Add without RawData)   *)
(*                and removed, and SearchGame queries arrive.              *)
(***************************************************************************)
minPacketSize == 4
portFieldSize == 2

\* a nil RawData slice
NoRawData == -1

\* the bytes of a RawData slice
Bytes(h, buf) == IF buf \in DOMAIN h THEN h[buf] ELSE <<>>

\* a list of games together with the bytes their RawData held when it was read
WithRaw(list, h) == [i \in 1..Len(list) |-> [game |-> list[i], raw |-> Bytes(h, list[i].RawData)]]

LE32(x) == <<x % 256, (x \div 256) % 256, (x \div 65536) % 256, (x \div 16777216) % 256>>

\* sendRawGameInfo writing the port high byte first
sendRawGameInfoBigEndian(raw, port) ==
    IF Len(raw) < minPacketSize THEN <<>>
    ELSE <<[i \in 1..Len(raw) |->
               IF i = Len(raw) - portFieldSize + 1 THEN (port \div 256) % 256
               ELSE IF i = Len(raw) - portFieldSize + 2 THEN port % 256
               ELSE raw[i]]>>

\* the datagrams sendRawGameInfo writes for a game with these raw bytes
sendRawGameInfo(raw, port) ==
    IF Len(raw) < minPacketSize THEN <<>>
    ELSE <<[i \in 1..Len(raw) |->
               IF i = Len(raw) - portFieldSize + 1 THEN port % 256
               ELSE IF i = Len(raw) - portFieldSize + 2 THEN (port \div 256) % 256
               ELSE raw[i]]>>

sendRefreshGame(hostCounter, slotsUsed, slotsAvailable) ==
    <<247, 50, 16, 0>> \o LE32(hostCounter) \o LE32(slotsUsed) \o LE32(slotsAvailable)

sendDecreateGame(hostCounter) == <<247, 51, 8, 0>> \o LE32(hostCounter)

\* the loop body with the two sends exchanged
gamePacketsRefreshFirst(g, raw, port) ==
    <<sendRefreshGame(g.Info.HostCounter, g.Info.SlotsUsed, g.Info.SlotsAvailable)>>
        \o sendRawGameInfo(raw, port)

\* the datagrams the first loop of broadcastGames writes for one game
gamePackets(g, raw, port) ==
    sendRawGameInfo(raw, port)
        \o <<sendRefreshGame(g.Info.HostCounter, g.Info.SlotsUsed, g.Info.SlotsAvailable)>>

\* the first loop taking every game of the list
isBroadcastAny(g) == TRUE

\* the first loop: `if g.Source != game.SourceRemote { continue }`
isBroadcast(g) == g.Source = SourceRemote

RECURSIVE announcements(_, _, _)
announcements(list, h, port) ==
    IF list = <<>> THEN <<>>
    ELSE (IF ~isBroadcast(Head(list)) THEN <<>>
          ELSE gamePackets(Head(list), Bytes(h, Head(list).RawData), port))
         \o announcements(Tail(list), h, port)

\* currentKeys after the first loop: a later entry of the list overwrites an earlier one
currentKeys(list) ==
    LET idx == {i \in 1..Len(list) : isBroadcast(list[i])}
        last(key) == CHOOSE i \in idx : Key(list[i]) = key
                                          /\ \A j \in idx : Key(list[j]) = key => j <= i
    IN  [key \in {Key(list[i]) : i \in idx} |-> list[last(key)].Info.HostCounter]

\* the second loop sending for every key of previousGameKeys
removedKeysAll(prev, cur) == DOMAIN prev

\* the keys the second loop of broadcastGames sends a DecreateGame for
removedKeys(prev, cur) == (DOMAIN prev) \ (DOMAIN cur)

broadcastGames ==
    LET cur == currentKeys(bGames)
    IN  /\ \E o \in Orders(removedKeys(previousGameKeys, cur)) :
              tick' = [n |-> IF tick.n = 1 THEN 2 ELSE 1,
                       games |-> WithRaw(bGames, heap),
                       before |-> tick.games,
                       out |-> announcements(bGames, heap, proxyPort)
                                 \o [i \in 1..Len(o) |-> sendDecreateGame(previousGameKeys[o[i]])]]
        /\ previousGameKeys' = cur
        /\ UNCHANGED <<proxyPort, reply, bGames, origin>>
        /\ UNCHANGED <<regVars, taskVars, probeVars>>

(***************************************************************************)
(* Responder.onSearchGame: answers a query with the raw bytes of every     *)
(* local game, skipping a game whose RawData is empty.                     *)
(***************************************************************************)
Queriers == {UDPAddr(PeerAddr, 50000), UDPAddr(PeerAddr2, 50001)}

\* the responder enumerating every game of the registry
AllGames(tbl) == tbl

\* the games onSearchGame enumerates: registry.LocalGames()
responderGames(tbl) == Filtered(tbl, SourceLocal)

RECURSIVE responses(_, _, _)
responses(list, h, to) ==
    IF list = <<>> THEN <<>>
    ELSE (IF Len(Bytes(h, Head(list).RawData)) = 0 THEN <<>>
          ELSE <<[to |-> to, data |-> Bytes(h, Head(list).RawData)]>>)
         \o responses(Tail(list), h, to)

onSearchGame(querier) ==
    /\ \E list \in snapshot(responderGames(games)) :
          reply' = [to |-> querier,
                    games |-> [k \in DOMAIN games |->
                                  [game |-> games[k], raw |-> Bytes(heap, games[k].RawData)]],
                    out |-> responses(list, heap, querier)]
    /\ UNCHANGED <<previousGameKeys, proxyPort, tick, bGames, origin>>
    /\ UNCHANGED <<regVars, taskVars, probeVars>>

(***************************************************************************)
(* The registry calls of SpecLan.  Each runs the onChange callback, which  *)
(* the supervisor wires to Broadcaster.OnGamesChanged (b.games = games).   *)
(* LanAdd is Registry.Add with the Game handleGameInfo builds, or with the *)
(* same Game lacking RawData; LanRemove is Registry.Remove.                *)
(***************************************************************************)
LanDatagrams == {GameInfoPacket("g1", 7), GameInfoPacket("g2", 0), GameInfoPacket("g1", 0)}

\* OnGamesChanged adding the new list to the cached one
OnGamesChangedAppend(list) == bGames' = bGames \o list

OnGamesChanged(list) == bGames' = list

LanAdd(datagram, addr, withRaw) ==
    LET buf == IF withRaw THEN nextBuf ELSE NoRawData
        game == handleGameInfo(datagram, buf, addr, findPeerName(peers, addr))
        tbl == AddTable(games, game, now, now)
    IN  /\ nextBuf <= MaxAdds
        /\ nextBuf' = nextBuf + 1
        /\ heap' = IF withRaw THEN Put(heap, nextBuf, datagram) ELSE heap
        /\ games' = tbl
        /\ \E list \in snapshot(tbl) : OnGamesChanged(list)
        /\ UNCHANGED <<now, ret, notified, lastOp, rawAsAdded, origin>>
        /\ UNCHANGED <<taskVars, probeVars, lanVars>>

LanRemove(key) ==
    /\ IF key \in DOMAIN games
       THEN /\ games' = RemoveTable(games, key)
            /\ \E list \in snapshot(RemoveTable(games, key)) : OnGamesChanged(list)
       ELSE UNCHANGED <<games, bGames>>
    /\ UNCHANGED <<heap, nextBuf, now, ret, notified, lastOp, rawAsAdded, origin>>
    /\ UNCHANGED <<taskVars, probeVars, lanVars>>

NextLan ==
    \/ \E datagram \in LanDatagrams, addr \in Addrs : LanAdd(datagram, addr, TRUE)
    \/ \E key \in Keys : LanRemove(key)
    \/ broadcastGames

SpecLan == Init /\ [][NextLan]_vars

NextResponder ==
    \/ \E datagram \in LanDatagrams, addr \in Addrs, withRaw \in BOOLEAN :
          LanAdd(datagram, addr, withRaw)
    \/ \E key \in Keys : LanRemove(key)
    \/ \E querier \in Queriers : onSearchGame(querier)

SpecResponder == Init /\ [][NextResponder]_vars

(***************************************************************************)
(* Claims about the responder (SpecResponder) and the broadcaster (SpecLan).*)
(***************************************************************************)
\* the packets of the last tick with a given opcode, in the order written
TickPackets(opcode) == SelectSeq(tick.out, LAMBDA p : p[2] = opcode)

\* the Remote games of a list read by a tick, in list order
RemoteOf(list) == SelectSeq(list, LAMBDA e : e.game.Source = SourceRemote)

\* key -> host counter of the Remote games of a list read by a tick
BroadcastSet(list) ==
    LET R == RemoteOf(list)
    IN  [key \in {Key(R[i].game) : i \in 1..Len(R)} |->
            R[CHOOSE i \in 1..Len(R) : Key(R[i].game) = key].game.Info.HostCounter]

\* C16: for a SearchGame the responder writes, to the querier's address, exactly
\* one datagram per Local game of the registry with non-empty raw, carrying
\* that raw byte for byte; nothing for a Local game with empty raw and nothing
\* for a Remote game.
C16_ResponderSendsLocalRaw ==
    LET local == {k \in DOMAIN reply.games :
                     reply.games[k].game.Source = SourceLocal /\ reply.games[k].raw # <<>>}
    IN  /\ Len(reply.out) = Cardinality(local)
        /\ \A k \in local :
              Cardinality({i \in 1..Len(reply.out) :
                              reply.out[i].data = reply.games[k].raw}) = 1
        /\ \A i \in 1..Len(reply.out) : reply.out[i].to = reply.to

C16_Witness ==
    /\ Len(reply.out) = 1
    /\ reply.to = UDPAddr(PeerAddr2, 50001)
    /\ Cardinality(DOMAIN reply.games) = 2

\* C17: every GameInfo announcement of a tick is the stored raw of its Remote
\* game with only the final two bytes replaced: same length, equal on
\* [0, len-2), and the last two bytes are the proxy's listen port, low byte first.
C17_AnnouncementIsRawWithProxyPort ==
    LET A == TickPackets(48)
        R == SelectSeq(RemoteOf(tick.games), LAMBDA e : e.raw # <<>>)
    IN  /\ Len(A) = Len(R)
        /\ \A k \in 1..Len(A) :
              /\ Len(A[k]) = Len(R[k].raw)
              /\ \A i \in 1..(Len(A[k]) - 2) : A[k][i] = R[k].raw[i]
              /\ A[k][Len(A[k]) - 1] = ProxyPort % 256
              /\ A[k][Len(A[k])] = ProxyPort \div 256

C17_Witness ==
    /\ Len(TickPackets(48)) = 1
    /\ Len(tick.games) = 2
    /\ TickPackets(48)[1] # RemoteOf(tick.games)[1].raw

\* C18: a tick writes exactly one DecreateGame, carrying the host counter last
\* broadcast, for each Remote key broadcast by the previous tick and absent from
\* this one, and none for any other key: none for a key in both ticks, none for a
\* key whose removal an earlier tick already announced.
C18_DecreateForRemovedKeys ==
    LET prev == BroadcastSet(tick.before)
        cur == BroadcastSet(tick.games)
        removed == (DOMAIN prev) \ (DOMAIN cur)
        D == TickPackets(51)
    IN  /\ Len(D) = Cardinality(removed)
        /\ \A hc \in HostCounters :
              Cardinality({i \in 1..Len(D) : D[i] = <<247, 51, 8, 0, hc, 0, 0, 0>>})
                  = Cardinality({key \in removed : prev[key] = hc})

C18_Witness ==
    /\ Len(TickPackets(51)) = 1
    /\ Len(TickPackets(48)) = 1
    /\ Len(RemoteOf(tick.before)) = 2

\* C19: in a tick every GameInfo announcement is immediately followed by the
\* RefreshGame of the same game (its host counter, slots used and slots
\* available), the refreshes follow the order of the Remote games, and every
\* DecreateGame comes after every announcement and refresh.
C19_TickPacketOrder ==
    LET R == RemoteOf(tick.games)
        F == TickPackets(50)
    IN  /\ \A i \in 1..Len(tick.out) :
              tick.out[i][2] = 48 =>
                  /\ i < Len(tick.out)
                  /\ tick.out[i + 1] = <<247, 50, 16, 0, tick.out[i][3], 0, 0, 0,
                                         tick.out[i][5], 0, 0, 0, tick.out[i][6], 0, 0, 0>>
        /\ Len(F) = Len(R)
        /\ \A k \in 1..Len(F) :
              F[k] = <<247, 50, 16, 0, R[k].game.Info.HostCounter, 0, 0, 0,
                       R[k].game.Info.SlotsUsed, 0, 0, 0,
                       R[k].game.Info.SlotsAvailable, 0, 0, 0>>
        /\ \A i, j \in 1..Len(tick.out) :
              (tick.out[i][2] = 51 /\ tick.out[j][2] \in {48, 50}) => j < i

C19_Witness ==
    /\ Len(tick.out) = 4
    /\ tick.out[1][2] = 48
    /\ tick.out[3][2] = 48
    /\ tick.out[2] # tick.out[4]

\* the host counters a tick announced with a GameInfo, given the list it read
AnnouncedCounters(list) ==
    {list[i].game.Info.HostCounter :
        i \in {j \in 1..Len(list) : /\ list[j].game.Source = SourceRemote
                                    /\ Len(list[j].raw) >= minPacketSize}}

\* C36: within one tick no DecreateGame is written for a host counter that a
\* GameInfo of the same tick announced.
C36_NoDecreateForAnnouncedCounter ==
    \A hc \in AnnouncedCounters(tick.games) :
        \A i \in 1..Len(tick.out) : tick.out[i] # <<247, 51, 8, 0>> \o LE32(hc)

\* C37: every host counter announced in one tick and not announced in the
\* next is withdrawn by a DecreateGame in that next tick, also when the
\* registry entry kept its key and only its host counter changed.
C37_DroppedCounterWithdrawn ==
    \A hc \in AnnouncedCounters(tick.before) \ AnnouncedCounters(tick.games) :
        \E i \in 1..Len(tick.out) : tick.out[i] = <<247, 51, 8, 0>> \o LE32(hc)

(***************************************************************************)
(* Part G: the running daemon (cmd/wc3ts/run.go).                          *)
(*                                                                         *)
(* SpecDaemon  the tasks startServices launches, as far as they touch the  *)
(*             registry and the broadcaster: the probe engine (version     *)
(*             set, peer list updates, probe ticker, ingest of the         *)
(*             origin's answers) and the broadcast ticker, with the clock. *)
(*             A remote origin at PeerAddr starts hosting game g1, answers *)
(*             the probes that reach it, and at some point stops for good. *)
(*             No task of the daemon calls Registry.Expire or Remove.      *)
(* The tickers keep firing and the clock keeps running: weak fairness.     *)
(***************************************************************************)
OriginHosts ==
    /\ origin = "idle"
    /\ origin' = "hosting"
    /\ UNCHANGED <<bGames, regVars, taskVars, probeVars, lanVars>>

OriginStops ==
    /\ origin = "hosting"
    /\ origin' = "gone"
    /\ UNCHANGED <<bGames, regVars, taskVars, probeVars, lanVars>>

\* the origin's GameInfo answer to the last probe cycle arrives and is ingested
ProbeAnswered ==
    /\ origin = "hosting"
    /\ \E i \in 1..Len(probe.out) : probe.out[i].to = UDPAddr(PeerAddr, DefaultPort)
    /\ LanAdd(GameInfoPacket("g1", 7), PeerAddr, TRUE)

NextDaemon ==
    \/ OriginHosts
    \/ OriginStops
    \/ \E v \in Versions : SetVersion(v)
    \/ \E list \in PeerLists : OnPeersChanged(list)
    \/ ProbeTick
    \/ ProbeAnswered
    \/ broadcastGames
    \/ Tick

SpecDaemon ==
    /\ Init
    /\ [][NextDaemon]_vars
    /\ WF_vars(ProbeTick)
    /\ WF_vars(broadcastGames)
    /\ WF_vars(Tick)

\* C20: once the origin has stopped answering for a game of the registry, the
\* staleness sweep eventually drops the entry and a broadcast tick withdraws it
\* (DecreateGame sent, the key gone from the broadcast set), with no GameInfo
\* announcement for it afterwards.
C20_StaleEntryWithdrawn ==
    (origin = "gone" /\ "100.64.0.2:g1" \in DOMAIN games)
        ~> (/\ "100.64.0.2:g1" \notin DOMAIN games
            /\ "100.64.0.2:g1" \notin DOMAIN previousGameKeys
            /\ TickPackets(48) = <<>>)

(***************************************************************************)
(* Part F: the TCP join proxy (proxy/tcp.go).                              *)
(*                                                                         *)
(* SpecProxy  one client connection from accept to close, against a        *)
(*            registry that ingest keeps changing, with the supervisor's   *)
(*            cancellation.  handleConnection is cut at its blocking       *)
(*            calls: the initial Read (followed by the lookup), the dial,  *)
(*            the Write of the initial packet, and the two io.Copy loops   *)
(*            of relay.  The client's bytes are all sent at connect time   *)
(*            and reach the proxy in pieces; the origin sends one chunk.   *)
(***************************************************************************)
maxJoinPacketSize == 512

\* a Join, reduced to magic, opcode, length and host counter
JoinPacket(hc) == <<247, 30, 4, hc>>

\* what a client writes: a Join followed by more traffic, a Join for an
\* unknown host counter, and a packet that is not a Join
ClientStreams == {JoinPacket(7) \o <<9>>, JoinPacket(99), <<247, 47, 4, 0>>}

\* readJoinPacket without the type assertion on the decoded packet
IsJoinAnyType(raw) == Len(raw) >= 4 /\ raw[1] = 247 /\ raw[3] <= Len(raw)

\* w3gs.Deserialize succeeds and yields a *w3gs.Join
IsJoin(raw) == Len(raw) >= 4 /\ raw[1] = 247 /\ raw[2] = 30 /\ raw[3] <= Len(raw)

\* forwarding the parsed packet only
initialPacketJoinOnly(buf, n) == SubSeq(buf, 1, 4)

\* initialPacket := buf[:n]
initialPacket(buf, n) == SubSeq(buf, 1, n)

\* dialing the port the broadcaster advertises
remoteAddrProxyPort(g) == UDPAddr(g.PeerIP, ProxyPort)

\* connectToRemote: net.JoinHostPort(g.PeerIP, g.Info.GamePort)
remoteAddr(g) == UDPAddr(g.PeerIP, g.Info.GamePort)

ProxyUnchangedButLocks ==
    /\ UNCHANGED <<games, heap, nextBuf, now, ret, notified, lastOp, rawAsAdded>>
    /\ UNCHANGED <<mu, pc, call, uiMsgs, bGames, bLog, applied, origin>>
    /\ UNCHANGED <<probeVars, lanVars, extVars>>

ProxyUnchanged == ProxyUnchangedButLocks /\ lk' = lk

\* the deferred Close calls of handleConnection
Closed(s, withOrigin) ==
    [s EXCEPT !.pc = "done", !.clientClosed = TRUE, !.originClosed = withOrigin]

\* acceptLoop: Accept returns a connection and handleConnection starts
Accept(stream) ==
    /\ sess.pc = "listen"
    /\ life.proxy.sock = "open"
    /\ sess' = [sess EXCEPT !.pc = "accepted", !.sent = stream]
    /\ life' = life
    /\ ProxyUnchanged

\* handleConnection up to the dial: readJoinPacket (one Read of n bytes, n = 0
\* standing for a read error or timeout), then FindByHostCounter
handleConnection(n) ==
    LET avail == IF n < Len(sess.sent) THEN n ELSE Len(sess.sent)
        got == IF avail < maxJoinPacketSize THEN avail ELSE maxJoinPacketSize
        pkt == initialPacket(sess.sent, got)
        s1 == [sess EXCEPT !.read = got, !.initial = got, !.first = pkt]
        found == FindMatches(games, pkt[4])
        remote == {games[k] : k \in DOMAIN Filtered(games, SourceRemote)}
    IN  /\ sess.pc = "accepted"
        /\ IF got = 0 \/ ~IsJoin(pkt)
           THEN sess' = Closed(s1, FALSE)
           ELSE IF found = {}
                THEN sess' = Closed([s1 EXCEPT !.hc = pkt[4], !.miss = TRUE,
                                               !.matches = remote], FALSE)
                ELSE \E g \in found :
                        sess' = [s1 EXCEPT !.pc = "found", !.hc = pkt[4], !.lookup = <<g>>,
                                           !.matches = remote]
        /\ life' = life
        /\ ProxyUnchanged

\* the dial looking the game up again in the registry
remoteGameLive(s, tbl) ==
    LET found == FindMatches(tbl, s.hc)
    IN  IF found = {} THEN s.lookup[1] ELSE CHOOSE g \in found : TRUE

\* remoteGame, the copy FindByHostCounter returned to handleConnection
remoteGame(s, tbl) == s.lookup[1]

\* connectToRemote: the dial fails when the context is cancelled, and may fail anyway
connectToRemote(ok) ==
    /\ sess.pc = "found"
    /\ life.cancelled => ~ok
    /\ LET s1 == [sess EXCEPT !.dials = Append(@, [to |-> remoteAddr(remoteGame(sess, games)), ok |-> ok])]
       IN  sess' = IF ok THEN [s1 EXCEPT !.pc = "dialed"] ELSE Closed(s1, FALSE)
    /\ life' = life
    /\ ProxyUnchanged

\* remoteConn.Write(initialPacket), then relay starts its two copies
forwardJoin(ok) ==
    /\ sess.pc = "dialed"
    /\ sess' = IF ok
               THEN [sess EXCEPT !.pc = "relay", !.toOrigin = sess.first,
                                 !.c2o = "copy", !.o2c = "copy"]
               ELSE Closed(sess, TRUE)
    /\ life' = life
    /\ ProxyUnchanged

\* the client sends FIN once its stream is out
ClientCloses ==
    /\ sess.pc = "relay"
    /\ ~sess.clientEOF
    /\ sess' = [sess EXCEPT !.clientEOF = TRUE]
    /\ life' = life
    /\ ProxyUnchanged

\* the origin answers
OriginSends ==
    /\ sess.pc = "relay"
    /\ ~sess.originEOF
    /\ sess.originSent = <<>>
    /\ sess' = [sess EXCEPT !.originSent = <<5>>]
    /\ life' = life
    /\ ProxyUnchanged

\* the origin sends FIN
OriginCloses ==
    /\ sess.pc = "relay"
    /\ ~sess.originEOF
    /\ sess' = [sess EXCEPT !.originEOF = TRUE]
    /\ life' = life
    /\ ProxyUnchanged

\* a full Close of the destination when a copy ends
endOfCopyCloses(s, dir) ==
    IF dir = "c2o"
    THEN [s EXCEPT !.c2o = "done", !.originWriteClosed = TRUE, !.originClosed = TRUE]
    ELSE [s EXCEPT !.o2c = "done", !.clientWriteClosed = TRUE, !.clientClosed = TRUE]

\* relay: what a goroutine does after its io.Copy returned, CloseWrite on the destination
endOfCopy(s, dir) ==
    IF dir = "c2o"
    THEN [s EXCEPT !.c2o = "done", !.originWriteClosed = TRUE]
    ELSE [s EXCEPT !.o2c = "done", !.clientWriteClosed = TRUE]

\* relay, first goroutine: io.Copy(conn2, conn1) moves what the client sent
copyClientToOrigin ==
    /\ sess.c2o = "copy"
    /\ ~sess.originClosed
    /\ sess.read < Len(sess.sent)
    /\ sess' = [sess EXCEPT !.toOrigin = @ \o SubSeq(sess.sent, sess.read + 1, Len(sess.sent)),
                            !.read = Len(sess.sent),
                            !.late = @ \/ sess.o2c = "done"]
    /\ life' = life
    /\ ProxyUnchanged

\* relay, first goroutine: io.Copy returns on the client's EOF, or on an
\* error once the other side of either socket is gone
endClientToOrigin ==
    /\ sess.c2o = "copy"
    /\ \/ sess.clientEOF /\ sess.read = Len(sess.sent)
       \/ sess.clientClosed \/ sess.originClosed
    /\ sess' = endOfCopy(sess, "c2o")
    /\ life' = life
    /\ ProxyUnchanged

\* relay, second goroutine: io.Copy(conn1, conn2) moves what the origin sent
copyOriginToClient ==
    /\ sess.o2c = "copy"
    /\ ~sess.clientClosed
    /\ Len(sess.toClient) < Len(sess.originSent)
    /\ sess' = [sess EXCEPT !.toClient = sess.originSent,
                            !.late = @ \/ sess.c2o = "done"]
    /\ life' = life
    /\ ProxyUnchanged

\* relay, second goroutine: io.Copy returns on the origin's EOF, or on an error
endOriginToClient ==
    /\ sess.o2c = "copy"
    /\ \/ sess.originEOF /\ sess.toClient = sess.originSent
       \/ sess.clientClosed \/ sess.originClosed
    /\ sess' = endOfCopy(sess, "o2c")
    /\ life' = life
    /\ ProxyUnchanged

\* relay: wg.Wait() returns, then the deferred Close calls of handleConnection
relayDone ==
    /\ sess.pc = "relay"
    /\ sess.c2o = "done"
    /\ sess.o2c = "done"
    /\ sess' = Closed(sess, TRUE)
    /\ life' = life
    /\ ProxyUnchanged

\* the context given to every Run is cancelled: a signal, or runExec's cancel()
Cancel ==
    /\ ~life.cancelled
    /\ life' = [life EXCEPT !.cancelled = TRUE]
    /\ sess' = [sess EXCEPT !.atCancel = sess.pc]
    /\ ProxyUnchanged

\* TCPProxy.Run after <-ctx.Done(): return p.Close(), the listener's Close
TCPProxyRun ==
    /\ life.cancelled
    /\ life.proxy.run = "running"
    /\ life' = [life EXCEPT !.proxy.run = "returned", !.proxy.sock = "closed",
                            !.proxy.result = "nil"]
    /\ sess' = sess
    /\ ProxyUnchanged

\* acceptLoop: Accept fails with net.ErrClosed and the loop returns
acceptLoop ==
    /\ life.proxy.sock = "closed"
    /\ life.proxy.loop = "running"
    /\ life' = [life EXCEPT !.proxy.loop = "exited"]
    /\ sess' = sess
    /\ ProxyUnchanged

\* every step the proxy can take by itself, without its peers acting
ProxySteps ==
    \/ \E n \in 0..5 : handleConnection(n)
    \/ \E ok \in BOOLEAN : connectToRemote(ok)
    \/ \E ok \in BOOLEAN : forwardJoin(ok)
    \/ copyClientToOrigin
    \/ endClientToOrigin
    \/ copyOriginToClient
    \/ endOriginToClient
    \/ relayDone
    \/ TCPProxyRun
    \/ acceptLoop

ProxyDatagrams == {GameInfoPacket("g1", 7)}

ProxyAddrs == {Loopback, PeerAddr, PeerAddr2}

ProxyKeys == {Key(handleGameInfo(raw, 0, addr, "")) : raw \in ProxyDatagrams, addr \in ProxyAddrs}

NextProxy ==
    \/ \E datagram \in ProxyDatagrams, addr \in ProxyAddrs : LanAdd(datagram, addr, TRUE)
    \/ \E key \in ProxyKeys : LanRemove(key)
    \/ \E stream \in ClientStreams : Accept(stream)
    \/ \E n \in 0..5 : handleConnection(n)
    \/ \E ok \in BOOLEAN : connectToRemote(ok)
    \/ \E ok \in BOOLEAN : forwardJoin(ok)
    \/ ClientCloses
    \/ OriginSends
    \/ OriginCloses
    \/ copyClientToOrigin
    \/ endClientToOrigin
    \/ copyOriginToClient
    \/ endOriginToClient
    \/ relayDone
    \/ Cancel
    \/ TCPProxyRun
    \/ acceptLoop

SpecProxy == Init /\ [][NextProxy]_vars

(***************************************************************************)
(* Claims about the join proxy.                                            *)
(***************************************************************************)
\* C21: in every proxied session the first bytes written to the origin are
\* exactly the bytes the single initial read returned (at most 512 of them),
\* unmodified, and every spliced client byte follows them in order.
C21_InitialPacketVerbatim ==
    sess.toOrigin # <<>> =>
        /\ sess.initial <= maxJoinPacketSize
        /\ Len(sess.toOrigin) >= sess.initial
        /\ SubSeq(sess.toOrigin, 1, sess.initial) = SubSeq(sess.sent, 1, sess.initial)
        /\ sess.toOrigin = SubSeq(sess.sent, 1, Len(sess.toOrigin))

C21_Witness ==
    /\ sess.pc = "relay"
    /\ sess.initial = 4
    /\ sess.toOrigin = JoinPacket(7) \o <<9>>

\* C22: a Join whose hostCounter matches a Remote game makes the proxy dial
\* exactly once, to that game's peer address and game port (never the proxy
\* port), and the Join is forwarded and the splice started only after the dial
\* succeeded.
C22_OneDialToOrigin ==
    /\ Len(sess.dials) <= 1
    /\ \A i \in DOMAIN sess.dials :
          /\ sess.dials[i].to.Port # proxyPort
          /\ \E g \in sess.matches :
                /\ g.Info.HostCounter = sess.hc
                /\ sess.dials[i].to = UDPAddr(g.PeerIP, g.Info.GamePort)
    /\ (sess.lookup # <<>> /\ sess.pc # "found") => Len(sess.dials) = 1
    /\ (sess.toOrigin # <<>> \/ sess.pc = "relay" \/ sess.c2o # "idle" \/ sess.o2c # "idle") =>
          (Len(sess.dials) = 1 /\ sess.dials[1].ok)

C22_Witness ==
    /\ sess.pc = "relay"
    /\ sess.hc = 7
    /\ sess.dials = <<[to |-> UDPAddr(PeerAddr, DefaultPort), ok |-> TRUE]>>
    /\ sess.toOrigin # <<>>

\* C23: a Join whose hostCounter matches no Remote game of the registry at
\* lookup time causes no dial and no write to any origin, and the client
\* connection is closed.
C23_UnknownHostCounterClosed ==
    (sess.hc # -1 /\ \A g \in sess.matches : g.Info.HostCounter # sess.hc) =>
        /\ sess.dials = <<>>
        /\ sess.toOrigin = <<>>
        /\ sess.pc = "done"
        /\ sess.clientClosed

C23_Witness ==
    /\ sess.hc = 99
    /\ sess.miss
    /\ sess.matches # {}
    /\ sess.clientClosed

C28_UnambiguousRouting ==
    /\ \A k1, k2 \in DOMAIN games :
          (/\ games[k1].Source = SourceRemote
           /\ games[k2].Source = SourceRemote
           /\ games[k1].Info.HostCounter = games[k2].Info.HostCounter) => k1 = k2
    /\ sess.lookup # <<>> =>
          \A g \in sess.matches : g.Info.HostCounter = sess.hc => g = sess.lookup[1]

\* C25: once the context is cancelled and the proxy has nothing left to do by
\* itself, both sockets of a session that was splicing at cancellation time
\* are closed, whether or not a remote endpoint closed first.
C25_SpliceTerminatedOnCancel ==
    (/\ life.cancelled
     /\ sess.atCancel = "relay"
     /\ life.proxy.run = "returned"
     /\ ~ENABLED ProxySteps) =>
        (sess.clientClosed /\ sess.originClosed)

\* C39: whatever happens to the registry after the lookup, every dial of
\* the session targets the peer address and game port of the Remote game
\* read at lookup time, and a splice that has started ends only when the
\* connections end: each copy on its source's end of stream, the session
\* after both.
C39_RoutedSessionIndependentOfRegistry ==
    /\ \A i \in 1..Len(sess.dials) :
          /\ sess.lookup # <<>>
          /\ sess.lookup[1] \in sess.matches
          /\ sess.lookup[1].Info.HostCounter = sess.hc
          /\ sess.dials[i].to = [IP |-> sess.lookup[1].PeerIP,
                                 Port |-> sess.lookup[1].Info.GamePort]
    /\ sess.toOrigin # <<>> =>
          /\ sess.c2o = "done" => sess.clientEOF
          /\ sess.o2c = "done" => sess.originEOF
          /\ sess.pc = "done" => sess.clientEOF /\ sess.originEOF

C39_Witness ==
    /\ sess.pc = "relay"
    /\ Len(sess.dials) = 1
    /\ sess.toClient # <<>>
    /\ Key(sess.lookup[1]) \notin DOMAIN games
    /\ \E k \in DOMAIN games :
          /\ games[k].Source = SourceRemote
          /\ games[k].Info.HostCounter = sess.hc
          /\ games[k] \notin sess.matches
          /\ games[k].PeerIP # sess.lookup[1].PeerIP

(***************************************************************************)
(* Part G: start and shutdown of the components (cmd/wc3ts/run.go).        *)
(*                                                                         *)
(* SpecShutdown  startServices has launched every Run; the tickers fire    *)
(*               while a Run loop is still selecting, the context gets     *)
(*               cancelled, each Run takes its ctx.Done() branch, the      *)
(*               background loops end when their socket is closed, and     *)
(*               runExec closes the broadcaster after its cancel().        *)
(***************************************************************************)
Components == {"manager", "responder", "broadcaster", "proxy"}

\* Manager.Run: the ticker case of the select
ManagerTick ==
    /\ life.manager.run = "running"
    /\ ProbeTick

\* Manager.Run: the ctx.Done() case, m.Close() and return ctx.Err()
ManagerRun ==
    /\ life.cancelled
    /\ life.manager.run = "running"
    /\ life' = [life EXCEPT !.manager.run = "returned", !.manager.sock = "closed",
                            !.manager.result = "canceled"]
    /\ sess' = sess
    /\ ProxyUnchanged

\* Manager.receiveLoop: ReadFrom fails on the closed socket and the loop returns
managerReceiveLoop ==
    /\ life.manager.sock = "closed"
    /\ life.manager.loop = "running"
    /\ life' = [life EXCEPT !.manager.loop = "exited"]
    /\ sess' = sess
    /\ ProxyUnchanged

\* Responder.Run: <-ctx.Done(), r.Close() and return ctx.Err()
ResponderRun ==
    /\ life.cancelled
    /\ life.responder.run = "running"
    /\ life' = [life EXCEPT !.responder.run = "returned", !.responder.sock = "closed",
                            !.responder.result = "canceled"]
    /\ sess' = sess
    /\ ProxyUnchanged

\* Responder.Run's goroutine: W3GSPacketConn.Run ends on the closed socket
responderPacketLoop ==
    /\ life.responder.sock = "closed"
    /\ life.responder.loop = "running"
    /\ life' = [life EXCEPT !.responder.loop = "exited"]
    /\ sess' = sess
    /\ ProxyUnchanged

\* Broadcaster.Run: the ticker case of the select
BroadcasterTick ==
    /\ life.broadcaster.run = "running"
    /\ broadcastGames

\* Broadcaster.Run: the ctx.Done() case, return ctx.Err()
BroadcasterRun ==
    /\ life.cancelled
    /\ life.broadcaster.run = "running"
    /\ life' = [life EXCEPT !.broadcaster.run = "returned", !.broadcaster.result = "canceled"]
    /\ sess' = sess
    /\ ProxyUnchanged

\* runExec after the UI ended: cancel() was called, then a.broadcaster.Close()
BroadcasterClose ==
    /\ life.cancelled
    /\ life.broadcaster.sock = "open"
    /\ life' = [life EXCEPT !.broadcaster.sock = "closed"]
    /\ sess' = sess
    /\ ProxyUnchanged

NextShutdown ==
    \/ Cancel
    \/ ManagerTick
    \/ ManagerRun
    \/ managerReceiveLoop
    \/ ResponderRun
    \/ responderPacketLoop
    \/ BroadcasterTick
    \/ BroadcasterRun
    \/ BroadcasterClose
    \/ TCPProxyRun
    \/ acceptLoop

SpecShutdown == Init /\ [][NextShutdown]_vars

\* C24: once the context is cancelled, a component whose Run has returned
\* has closed the sockets it owns and has returned the cancellation error.
C24_RunReturnsCancellationError ==
    \A c \in Components :
        life[c].run = "returned" =>
            (life[c].sock = "closed" /\ life[c].result = "canceled")

(***************************************************************************)
(* Part H: the locks.  r is Registry.mu, b is Broadcaster.mu, m is         *)
(* Manager.mu.  Every goroutine is the sequence of lock operations, I/O    *)
(* calls and channel sends its code performs, repeated for ever.           *)
(*                                                                         *)
(* SpecLocks  ingest (receiveLoop -> Registry.Add), sweep (Remove or       *)
(*            Expire), the broadcast tick, a responder lookup, a join      *)
(*            lookup and a probe cycle, interleaved; a goroutine that can  *)
(*            take a step again and again eventually takes it (all three   *)
(*            are sync.RWMutex: a pending writer holds back new readers,   *)
(*            and writers queue on a mutex that serves starving waiters).  *)
(***************************************************************************)
Lock(l) == [op |-> "lock", lock |-> l, mode |-> "W"]

RLock(l) == [op |-> "lock", lock |-> l, mode |-> "R"]

Unlock(l) == [op |-> "unlock", lock |-> l, mode |-> ""]

IO(what) == [op |-> "io", lock |-> what, mode |-> ""]

\* program.Send: handing a message to the UI event loop, which takes no lock
Send == [op |-> "send", lock |-> "", mode |-> ""]

\* a callback that reads the registry back before updating the broadcaster
onGamesChangedReentrant ==
    <<Send, RLock("r"), Unlock("r"), Lock("b"), Unlock("b")>>

\* app.onGamesChanged: program.Send, then Broadcaster.OnGamesChanged under b
onGamesChanged == <<Send, Lock("b"), Unlock("b")>>

\* Broadcaster.broadcastGames: Lock, the sends, the deferred Unlock
broadcastGamesLocked == <<Lock("b"), IO("WriteTo"), Unlock("b")>>

Program(t) ==
    CASE t = "ingest" -> <<IO("ReadFrom"), Lock("r")>> \o onGamesChanged \o <<Unlock("r")>>
      [] t = "sweep" -> <<Lock("r")>> \o onGamesChanged \o <<Unlock("r")>>
      [] t = "tick" -> broadcastGamesLocked
      [] t = "responder" -> <<IO("ReadFrom"), RLock("r"), Unlock("r"), IO("WriteTo")>>
      [] t = "join" -> <<IO("Read"), RLock("r"), Unlock("r"), IO("Dial")>>
      [] t = "probe" -> <<RLock("m"), Unlock("m"), IO("WriteTo")>>

Instr(t) == Program(t)[lk.at[t]]

Holds(t, l) == \E mode \in {"R", "W"} : <<t, l, mode>> \in lk.held

\* a goroutine blocked in Lock: it has announced itself to the readers
PendingWriters(l) == {t \in LockTasks : Instr(t) = Lock(l)}

\* the goroutines blocked in RLock behind a writer
WaitingReaders(l) == {t \in LockTasks : Instr(t) = RLock(l)}

\* sync.Mutex and sync.RWMutex: Lock needs the lock free; RLock needs no
\* writer, neither holding nor pending
CanTake(t, l, mode) ==
    IF mode = "W"
    THEN \A h \in lk.held : h[2] # l
    ELSE /\ \A h \in lk.held : ~(h[2] = l /\ h[3] = "W")
         /\ PendingWriters(l) \ {t} = {}

After(t) == IF lk.at[t] = Len(Program(t)) THEN 1 ELSE lk.at[t] + 1

\* one instruction of goroutine t; the Unlock of a writer lets in every
\* reader that was blocked behind it
Step(t) ==
    LET in == Instr(t)
        woken == IF in.op = "unlock" /\ <<t, in.lock, "W">> \in lk.held
                 THEN WaitingReaders(in.lock) \ {t}
                 ELSE {}
    IN  /\ in.op = "lock" => CanTake(t, in.lock, in.mode)
        /\ lk' = [at |-> [u \in LockTasks |->
                             IF u = t \/ u \in woken THEN After(u) ELSE lk.at[u]],
                  held |-> CASE in.op = "lock" -> lk.held \cup {<<t, in.lock, in.mode>>}
                             [] in.op = "unlock" ->
                                  {h \in lk.held : ~(h[1] = t /\ h[2] = in.lock)}
                                     \cup {<<u, in.lock, "R">> : u \in woken}
                             [] OTHER -> lk.held]
        /\ UNCHANGED <<sess, life>>
        /\ ProxyUnchangedButLocks

NextLocks == \E t \in LockTasks : Step(t)

SpecLocks == Init /\ [][NextLocks]_vars /\ \A t \in LockTasks : SF_vars(Step(t))

\* C26: no goroutine holds the registry lock, the probe engine's lock or the
\* broadcaster's lock while it, or a callback it invoked, performs a UDP or
\* TCP read, write or dial.
C26_NoLockAcrossIO ==
    \A t \in LockTasks : Instr(t).op = "io" => \A l \in {"r", "b", "m"} : ~Holds(t, l)

\* C27: the change callback never takes the registry lock again, the
\* registry lock is never requested by a holder of the broadcaster lock, and
\* a goroutine that requests a lock eventually gets it.
C27_NoReentryNoStarvation ==
    /\ [](\A t \in LockTasks : Instr(t).op = "lock" => ~Holds(t, Instr(t).lock))
    /\ [](\A t \in LockTasks : (Instr(t).op = "lock" /\ Instr(t).lock = "r") => ~Holds(t, "b"))
    /\ \A t \in LockTasks : (Instr(t).op = "lock") ~> (Instr(t).op # "lock")

C27_Witness ==
    /\ Holds("ingest", "r")
    /\ Instr("ingest") = Lock("b")
    /\ Holds("tick", "b")
    /\ Instr("sweep") = Lock("r")
    /\ Instr("join") = RLock("r")

\* C30: OnGamesChanged only replaces the broadcaster's cached list and sends
\* nothing; a tick leaves the cache alone and broadcasts the list of the last
\* OnGamesChanged call before it, one RefreshGame per Remote game of the
\* registry as it is at the tick.
C30_CacheOnlyUntilTick ==
    [][/\ bGames' # bGames =>
             (tick' = tick /\ previousGameKeys' = previousGameKeys /\ bGames' \in snapshot(games'))
       /\ tick' # tick =>
             /\ bGames' = bGames
             /\ [i \in 1..Len(tick'.games) |-> tick'.games[i].game] \in snapshot(games)
             /\ Len(SelectSeq(tick'.out, LAMBDA p : p[2] = 50))
                   = Cardinality(DOMAIN Filtered(games, SourceRemote))]_vars

C30_Witness ==
    /\ tick.n = 2
    /\ tick.before = <<>>
    /\ Len(RemoteOf(tick.games)) = 2
    /\ Len(TickPackets(50)) = 2

(***************************************************************************)
(* Further claims about the broadcaster.                                   *)
(***************************************************************************)
\* C31: a tick announces every Remote game of the cached list (its GameInfo
\* and its RefreshGame, in list order) and sends nothing for a Local game:
\* no GameInfo, no RefreshGame, and no DecreateGame beyond the Remote keys of
\* the previous tick.
C31_OnlyRemoteGamesBroadcast ==
    LET R == RemoteOf(tick.games)
        A == TickPackets(48)
        F == TickPackets(50)
        D == TickPackets(51)
    IN  /\ Len(A) = Len(R)
        /\ Len(F) = Len(R)
        /\ \A k \in 1..Len(A) :
              /\ A[k][3] = R[k].game.Info.HostCounter
              /\ A[k][4] = NameByte(R[k].game.Info.GameName)
        /\ Len(D) <= Cardinality({Key(RemoteOf(tick.before)[i].game) :
                                     i \in 1..Len(RemoteOf(tick.before))})
        /\ Len(tick.out) = Len(A) + Len(F) + Len(D)

C31_Witness ==
    /\ tick.n = 2
    /\ Len(tick.games) = 1
    /\ tick.games[1].game.Source = SourceLocal
    /\ Len(tick.before) = 2
    /\ Len(RemoteOf(tick.before)) = 1
    /\ Len(tick.out) = 1
    /\ tick.out[1][2] = 51

(***************************************************************************)
(* Part I: probe cycles that overlap (peer/manager.go).                    *)
(*                                                                         *)
(* SpecCycles  two goroutines run probeAllPeers, Run's ticker and the      *)
(*             overlay adapter's OnPeersChanged, and the UI goroutine      *)
(*             calls SetVersion.  A cycle is cut at its lock sections and  *)
(*             at every datagram it writes: the store of OnPeersChanged,   *)
(*             the snapshot under RLock, the probe of loopback, and one    *)
(*             step per entry of the list the loop ranges over.            *)
(***************************************************************************)
BaseUnchanged ==
    /\ UNCHANGED <<regVars, mu, pc, call, uiMsgs, bGames, bLog, applied, origin>>
    /\ UNCHANGED <<lanVars, sess, life, lk>>

CyclesUnchanged ==
    /\ BaseUnchanged
    /\ UNCHANGED <<version, probe, recv, announced, disc, pbuf, net>>

\* the loop ranging over m.peers itself, read again at every iteration
cyclePeersLive(c, live) == live

\* the loop of probeAllPeers ranges over the copy made under the lock
cyclePeers(c, live) == c.peers

\* Run: the ticker fires and probeAllPeers is entered
BeginTick ==
    /\ cyc["ticker"].pc \in {"idle", "done"}
    /\ cyc' = [cyc EXCEPT !["ticker"] = [NoCycle EXCEPT !.pc = "snapshot", !.trigger = "tick"]]
    /\ peers' = peers
    /\ CyclesUnchanged

\* OnPeersChanged: m.peers = peers under the lock; probeAllPeers comes next
StorePeers(list) ==
    /\ cyc["discovery"].pc \in {"idle", "done"}
    /\ peers' = list
    /\ cyc' = [cyc EXCEPT !["discovery"] =
                  [NoCycle EXCEPT !.pc = "snapshot", !.trigger = "OnPeersChanged", !.arg = list]]
    /\ CyclesUnchanged

\* probeAllPeers: the copy of m.peers and m.version under RLock, then the version test
SnapshotPeers(t) ==
    /\ cyc[t].pc = "snapshot"
    /\ cyc' = [cyc EXCEPT ![t].peers = peers, ![t].version = version,
                          ![t].pc = IF version.Version = 0 THEN "done" ELSE "local"]
    /\ peers' = peers
    /\ CyclesUnchanged

\* probeAllPeers: m.probeLocal(version)
SendLocalProbe(t) ==
    /\ cyc[t].pc = "local"
    /\ cyc' = [cyc EXCEPT ![t].out = Append(@, probeLocal(cyc[t].version)),
                          ![t].pc = "peers", ![t].i = 1]
    /\ peers' = peers
    /\ CyclesUnchanged

\* probeAllPeers: one iteration of the loop over the peers, or its end
SendPeerProbe(t) ==
    LET c == cyc[t]
        ps == cyclePeers(c, peers)
    IN  /\ c.pc = "peers"
        /\ cyc' = IF c.i > Len(ps)
                  THEN [cyc EXCEPT ![t].pc = "done"]
                  ELSE [cyc EXCEPT ![t].i = c.i + 1,
                                   ![t].out = IF ps[c.i].Online
                                              THEN Append(@, probePeer(ps[c.i].IP, c.version))
                                              ELSE @]
        /\ peers' = peers
        /\ CyclesUnchanged

NextCycles ==
    \/ BeginTick
    \/ \E list \in PeerLists : StorePeers(list)
    \/ \E t \in ProbeTasks : SnapshotPeers(t)
    \/ \E t \in ProbeTasks : SendLocalProbe(t)
    \/ \E t \in ProbeTasks : SendPeerProbe(t)
    \/ \E v \in Versions : SetVersion(v)

SpecCycles == Init /\ [][NextCycles]_vars

C33_NotAJoinClosedSilently ==
    LET p == sess.first
        notJoin == Len(p) < 4 \/ p[1] # 247 \/ p[2] # 30 \/ p[3] > Len(p)
    IN  (sess.pc \notin {"listen", "accepted"} /\ notJoin) =>
            /\ sess.pc = "done"
            /\ sess.clientClosed
            /\ sess.hc = -1
            /\ sess.lookup = <<>>
            /\ ~sess.miss
            /\ sess.dials = <<>>
            /\ sess.toOrigin = <<>>
            /\ sess.toClient = <<>>

C33_Witness ==
    /\ sess.pc = "done"
    /\ sess.first = <<247, 47, 4, 0>>
    /\ sess.clientClosed
    /\ \E k \in DOMAIN games : games[k].Source = SourceRemote

(***************************************************************************)
(* Part J: the overlay adapter (package tailscale, Discovery).             *)
(*                                                                         *)
(* SpecDiscovery  the network map, of at most MaxNodes peers, changes by a  *)
(*                peer at a time; each map arrives on the IPN bus and      *)
(*                updateFromNetMap publishes the list extractPeers makes   *)
(*                of it.  A string is the sequence of its bytes.           *)
(***************************************************************************)
mullvadExitNodeTag == "tag:mullvad-exit-node"

Str_ios == <<105, 111, 115>>

Str_android == <<97, 110, 100, 114, 111, 105, 100>>

Str_windows == <<119, 105, 110, 100, 111, 119, 115>>

Str_macos == <<109, 97, 99, 111, 115>>

Str_macOS == <<109, 97, 99, 79, 83>>

Str_darwin == <<100, 97, 114, 119, 105, 110>>

\* strings.ToLower on ASCII text
ToLower(str) == [i \in 1..Len(str) |-> IF str[i] \in 65..90 THEN str[i] + 32 ELSE str[i]]

\* the OS test comparing the label as it is
isMobileExact(os) == os = Str_ios \/ os = Str_android

\* extractPeer: osLower == "ios" || osLower == "android"
isMobile(os) == ToLower(os) = Str_ios \/ ToLower(os) = Str_android

\* a peer of the network map: tailcfg.NodeView as far as extractPeer reads it
Node(name, valid, online, tags, os, addrs) ==
    [Name |-> name, Valid |-> valid, Online |-> online, Tags |-> tags, OS |-> os, Addrs |-> addrs]

V4(ip) == [Is4 |-> TRUE, IP |-> ip]

V6(ip) == [Is4 |-> FALSE, IP |-> ip]

NodeViews ==
    {Node("win", TRUE, "true", {}, Str_windows, <<V4(PeerAddr)>>),
     Node("off", TRUE, "false", {}, Str_windows, <<V4(PeerAddr)>>),
     Node("unknown", TRUE, "unset", {}, Str_windows, <<V4(PeerAddr)>>),
     Node("exit", TRUE, "true", {"tag:server", mullvadExitNodeTag}, <<>>, <<V4(PeerAddr2)>>),
     Node("phone", TRUE, "true", {}, <<105, 79, 83>>, <<V4(PeerAddr2)>>),
     Node("tablet", TRUE, "true", {}, <<65, 110, 100, 114, 111, 105, 100>>, <<V4(PeerAddr2)>>),
     Node("droid", TRUE, "true", {}, Str_android, <<V4(PeerAddr2)>>),
     Node("six", TRUE, "true", {}, Str_macOS, <<V6(<<64768, 1>>)>>),
     Node("dual", TRUE, "true", {"tag:server"}, Str_macOS,
          <<V6(<<64768, 2>>), V4(PeerAddr2), V4(PeerAddr)>>),
     Node("bare", TRUE, "true", {}, <<>>, <<V4(PeerAddr)>>),
     Node("invalid", FALSE, "true", {}, <<>>, <<V4(PeerAddr)>>)}

RECURSIVE NetMapsOf(_)
NetMapsOf(n) ==
    IF n = 0 THEN {<<>>}
    ELSE NetMapsOf(n - 1) \cup {Append(nm, p) : nm \in NetMapsOf(n - 1), p \in NodeViews}

\* extractPeer: the peer and whether it is kept
extractPeer(p) ==
    LET v4 == {i \in 1..Len(p.Addrs) : p.Addrs[i].Is4}
        first == CHOOSE i \in v4 : \A j \in v4 : i <= j
    IN  IF ~p.Valid THEN <<>>
        ELSE IF p.Online # "true" THEN <<>>
        ELSE IF mullvadExitNodeTag \in p.Tags THEN <<>>
        ELSE IF isMobile(p.OS) THEN <<>>
        ELSE IF v4 = {} THEN <<>>
        ELSE <<[Name |-> p.Name, IP |-> p.Addrs[first].IP, Online |-> TRUE, OS |-> p.OS]>>

RECURSIVE extractPeers(_)
extractPeers(nm) ==
    IF nm = <<>> THEN <<>> ELSE extractPeer(Head(nm)) \o extractPeers(Tail(nm))

\* updateFromNetMap: d.peers = peers, then onChange(peers)
updateFromNetMap(nm) ==
    /\ disc' = [nm |-> nm, peers |-> extractPeers(nm)]
    /\ BaseUnchanged
    /\ UNCHANGED <<probeVars, cyc, pbuf, net>>

\* the network map the IPN bus reports next: a peer more, or a peer less
NextDiscovery ==
    \/ \E p \in NodeViews :
          Len(disc.nm) < MaxNodes /\ updateFromNetMap(Append(disc.nm, p))
    \/ \E i \in 1..Len(disc.nm) :
          updateFromNetMap(SubSeq(disc.nm, 1, i - 1) \o SubSeq(disc.nm, i + 1, Len(disc.nm)))

SpecDiscovery == Init /\ [][NextDiscovery]_vars

\* the two labels are the same text up to the case of ASCII letters
SameLabel(a, b) ==
    /\ Len(a) = Len(b)
    /\ \A i \in 1..Len(a) :
          \/ a[i] = b[i]
          \/ (a[i] \in 65..90 /\ b[i] = a[i] + 32)
          \/ (b[i] \in 65..90 /\ a[i] = b[i] + 32)

\* what the adapter may publish of a node
Publishable(p) ==
    /\ p.Valid
    /\ p.Online = "true"
    /\ \E i \in 1..Len(p.Addrs) : p.Addrs[i].Is4
    /\ ~SameLabel(p.OS, Str_ios)
    /\ ~SameLabel(p.OS, Str_android)
    /\ "tag:mullvad-exit-node" \notin p.Tags

\* C34: every peer of a published list is online, carries an IPv4 address of
\* its node, has an OS label other than iOS and Android in any letter case
\* and is no Mullvad exit node; the list holds exactly the nodes of the
\* network map that meet all of this, in map order.
C34_PublishedPeersFiltered ==
    LET kept == SelectSeq(disc.nm, Publishable)
    IN  /\ Len(disc.peers) = Len(kept)
        /\ \A k \in 1..Len(kept) :
              /\ disc.peers[k].Name = kept[k].Name
              /\ disc.peers[k].Online
              /\ disc.peers[k].OS = kept[k].OS
              /\ \E i \in 1..Len(kept[k].Addrs) :
                    kept[k].Addrs[i].Is4 /\ kept[k].Addrs[i].IP = disc.peers[k].IP

C34_Witness ==
    /\ Len(disc.nm) = 2
    /\ disc.nm[1].Name = "tablet"
    /\ disc.nm[2].Name = "dual"
    /\ Len(disc.peers) = 1
    /\ disc.peers[1].IP = PeerAddr2

(***************************************************************************)
(* Part K: the peer list shared by the supervisor's fan-out.               *)
(*                                                                         *)
(* SpecPeers  the overlay adapter publishes lists; app.onPeersChanged      *)
(*            hands the one slice to the UI (PeersMsg) and to the probe    *)
(*            engine (OnPeersChanged), which keeps it uncopied.  pbuf      *)
(*            holds the backing arrays and who refers to which: mgr is     *)
(*            Manager.peers, ui is Model.peers.  The UI goroutine sorts    *)
(*            its slice in place, one element write at a time, holding no  *)
(*            lock of the probe engine; a probe cycle copies Manager.peers *)
(*            at any moment in between.  delivered, snap and snapped       *)
(*            record the lists passed to OnPeersChanged and the copy the   *)
(*            last cycle took; at is the number of lists passed by then.   *)
(***************************************************************************)
osPriorityWindows == 0
osPriorityMacOS == 1
osPriorityOther == 2

osPriority(os) ==
    IF ToLower(os) = Str_windows THEN osPriorityWindows
    ELSE IF ToLower(os) = Str_macos \/ ToLower(os) = Str_darwin THEN osPriorityMacOS
    ELSE osPriorityOther

\* the node names in string order
NameOrder ==
    <<"bare", "droid", "dual", "exit", "invalid", "off", "phone", "six", "tablet", "unknown", "win">>

NameLess(a, b) ==
    (CHOOSE i \in 1..Len(NameOrder) : NameOrder[i] = a)
        < (CHOOSE i \in 1..Len(NameOrder) : NameOrder[i] = b)

\* the less function of sortPeersByOS
sortPeersByOSLess(a, b) ==
    IF osPriority(a.OS) # osPriority(b.OS) THEN osPriority(a.OS) < osPriority(b.OS)
    ELSE NameLess(a.Name, b.Name)

SwapAt(list, j) ==
    [k \in 1..Len(list) |-> IF k = j THEN list[j - 1] ELSE IF k = j - 1 THEN list[j] ELSE list[k]]

\* the swaps sort.Slice makes on a short slice (insertion sort): the
\* positions j of swap(j, j-1), in order
RECURSIVE insertionSwaps(_, _, _, _)
insertionSwaps(list, i, j, acc) ==
    IF i > Len(list) THEN acc
    ELSE IF j > 1 /\ sortPeersByOSLess(list[j], list[j - 1])
         THEN insertionSwaps(SwapAt(list, j), i, j - 1, Append(acc, j))
         ELSE insertionSwaps(list, i + 1, i + 1, acc)

\* the network maps the overlay reports in SpecPeers
PeerNetMaps ==
    {nm \in NetMapsOf(3) :
        \/ Len(nm) <= 1 /\ \A k \in 1..Len(nm) : nm[k].Name = "win"
        \/ Len(nm) = 2 /\ nm[1].Name \in {"dual", "win"} /\ nm[2].Name \in {"win", "bare"}
                       /\ nm[1].Name # nm[2].Name
        \/ Len(nm) = 3 /\ nm[1].Name = "bare" /\ nm[2].Name = "phone" /\ nm[3].Name = "dual"}

PeersUnchanged ==
    /\ BaseUnchanged
    /\ UNCHANGED <<probeVars, cyc, disc, net>>

\* Discovery.updateFromNetMap -> app.onPeersChanged: program.Send(PeersMsg)
\* and Manager.OnPeersChanged up to its Unlock
onPeersChanged(list) ==
    LET idx == Len(pbuf.arrays) + 1
    IN  /\ Len(pbuf.arrays) < MaxLists
        /\ ~pbuf.pending
        /\ pbuf' = [pbuf EXCEPT !.arrays = Append(@, list),
                                !.inbox = Append(@, idx),
                                !.mgr = idx,
                                !.delivered = Append(@, list),
                                !.pending = TRUE]
        /\ PeersUnchanged

\* the slice a probe cycle copies under RLock
copyOfPeers(b) == IF b.mgr = 0 THEN <<>> ELSE b.arrays[b.mgr]

\* probeAllPeers: make + copy(peers, m.peers), for the cycle OnPeersChanged
\* runs before it returns or for a cycle of the ticker
probeAllPeersCopy(trigger) ==
    /\ trigger = "discovery" => pbuf.pending
    /\ pbuf' = [pbuf EXCEPT !.snap = copyOfPeers(pbuf),
                            !.snapped = TRUE,
                            !.at = Len(pbuf.delivered),
                            !.pending = IF trigger = "discovery" THEN FALSE ELSE @]
    /\ PeersUnchanged

\* Model.Update, case PeersMsg: m.peers = msg.Peers, then sortPeersByOS begins
UpdatePeersMsg ==
    /\ pbuf.inbox # <<>>
    /\ pbuf.todo = <<>>
    /\ pbuf' = [pbuf EXCEPT !.ui = Head(pbuf.inbox),
                            !.inbox = Tail(@),
                            !.todo = insertionSwaps(pbuf.arrays[Head(pbuf.inbox)], 2, 2, <<>>)]
    /\ PeersUnchanged

\* swap(j, j-1), first write: s[j] = s[j-1]
sortSwapFirst ==
    /\ pbuf.todo # <<>>
    /\ ~pbuf.half
    /\ LET j == Head(pbuf.todo)
       IN  pbuf' = [pbuf EXCEPT !.tmp = <<pbuf.arrays[pbuf.ui][j]>>,
                                !.arrays[pbuf.ui][j] = pbuf.arrays[pbuf.ui][j - 1],
                                !.half = TRUE]
    /\ PeersUnchanged

\* swap(j, j-1), second write: s[j-1] = tmp
sortSwapSecond ==
    /\ pbuf.half
    /\ LET j == Head(pbuf.todo)
       IN  pbuf' = [pbuf EXCEPT !.arrays[pbuf.ui][j - 1] = pbuf.tmp[1],
                                !.tmp = <<>>,
                                !.half = FALSE,
                                !.todo = Tail(@)]
    /\ PeersUnchanged

NextPeers ==
    \/ \E nm \in PeerNetMaps : onPeersChanged(extractPeers(nm))
    \/ \E trigger \in ProbeTasks : probeAllPeersCopy(trigger)
    \/ UpdatePeersMsg
    \/ sortSwapFirst
    \/ sortSwapSecond

SpecPeers == Init /\ [][NextPeers]_vars

\* the two lists hold the same elements, each as often
SameElements(a, b) ==
    /\ Len(a) = Len(b)
    /\ \A x \in Range(a) \cup Range(b) :
          Cardinality({i \in 1..Len(a) : a[i] = x}) = Cardinality({i \in 1..Len(b) : b[i] = x})

\* C38: the peer list a probe cycle copies holds the elements of one of the
\* lists passed to OnPeersChanged, whatever the other holders of the list do.
C38_SnapshotIsADeliveredList ==
    (pbuf.snapped /\ pbuf.at > 0) =>
        \E k \in 1..pbuf.at : SameElements(pbuf.snap, pbuf.delivered[k])

(***************************************************************************)
(* Part L: several nodes on one overlay.                                   *)
(*                                                                         *)
(* SpecOverlay  three nodes, each with a registry, a probe engine and a    *)
(*              responder.  The Warcraft clients of A and B host games; a  *)
(*              node probes its loopback and its peers, the answers travel *)
(*              as datagrams (net.inflight) that arrive or are lost, and   *)
(*              the ingest loop of the receiver adds what arrives.  last   *)
(*              records the latest query a responder answered.             *)
(***************************************************************************)
PeerAddr3 == <<100, 64, 0, 4>>

NodeAddr(n) == IF n = "A" THEN PeerAddr ELSE IF n = "B" THEN PeerAddr2 ELSE PeerAddr3

\* the games the Warcraft client of a node can host
Hosted(n) ==
    IF n = "A" THEN {GameInfoPacket("g1", 7)}
    ELSE IF n = "B" THEN {GameInfoPacket("g2", 0)}
    ELSE {}

\* the node whose client hosts the game of this name
HostOf(name) == CHOOSE n \in Nodes : \E raw \in Hosted(n) : Deserialize(raw).GameName = name

OverlayUnchanged ==
    /\ BaseUnchanged
    /\ UNCHANGED <<probeVars, cyc, disc, pbuf>>

\* the Warcraft client of n creates a game
ClientHosts(n, raw) ==
    /\ raw \in Hosted(n) \ net.hosting[n]
    /\ net' = [net EXCEPT !.hosting[n] = @ \cup {raw}]
    /\ OverlayUnchanged

\* probeLocal of n: the client answers the SearchGame with the games it hosts
probeLocalNode(n) ==
    /\ net.inflight = <<>>
    /\ net.hosting[n] # {}
    /\ \E o \in Orders(net.hosting[n]) :
          net' = [net EXCEPT !.inflight = [i \in 1..Len(o) |->
                                              [to |-> n, addr |-> Loopback, data |-> o[i]]]]
    /\ OverlayUnchanged

\* probePeer of n towards m, and onSearchGame of m's responder answering it
probePeerNode(n, m) ==
    /\ n # m
    /\ net.inflight = <<>>
    /\ \E list \in snapshot(responderGames(net.reg[m])) :
          LET out == responses(list, net.heap[m], n)
          IN  net' = [net EXCEPT !.inflight = [i \in 1..Len(out) |->
                                                  [to |-> n, addr |-> NodeAddr(m),
                                                   data |-> out[i].data]],
                                 !.last = [by |-> n, of |-> m,
                                           remoteHeld |-> Cardinality(DOMAIN Filtered(net.reg[m],
                                                                                      SourceRemote)),
                                           out |-> Len(out)]]
    /\ OverlayUnchanged

\* receiveLoop of the addressee: ReadFrom, the copy of the datagram, handleGameInfo, Registry.Add
nodeReceive ==
    /\ net.inflight # <<>>
    /\ LET d == Head(net.inflight)
           n == d.to
           buf == net.nextBuf[n]
           game == handleGameInfo(d.data, buf, d.addr, "")
       IN  /\ buf <= MaxAdds
           /\ IsGameInfo(d.data)
           /\ net' = [net EXCEPT !.inflight = Tail(@),
                                 !.reg[n] = AddTable(@, game, now, now),
                                 !.heap[n] = Put(@, buf, d.data),
                                 !.nextBuf[n] = buf + 1]
    /\ OverlayUnchanged

\* the datagram is lost
nodeLoses ==
    /\ net.inflight # <<>>
    /\ net' = [net EXCEPT !.inflight = Tail(@)]
    /\ OverlayUnchanged

NextOverlay ==
    \/ \E n \in Nodes : \E raw \in Hosted(n) : ClientHosts(n, raw)
    \/ \E n \in Nodes : probeLocalNode(n)
    \/ \E n, m \in Nodes : probePeerNode(n, m)
    \/ nodeReceive
    \/ nodeLoses

SpecOverlay == Init /\ [][NextOverlay]_vars

\* C40: in every node's registry a Remote game carries the address of the
\* node whose client hosts it, never that of a node that only discovered
\* it, and a Local game is one the node's own client hosts.
C40_NoTransitiveAdvertisement ==
    \A n \in Nodes : \A k \in DOMAIN net.reg[n] :
        LET g == net.reg[n][k]
        IN  /\ g.Source = SourceRemote =>
                  /\ HostOf(g.Info.GameName) # n
                  /\ g.PeerIP = NodeAddr(HostOf(g.Info.GameName))
            /\ g.Source = SourceLocal => HostOf(g.Info.GameName) = n

C40_Witness ==
    /\ net.last.by = "C" /\ net.last.of = "B"
    /\ net.last.remoteHeld = 1
    /\ net.last.out = 1
    /\ net.inflight = <<>>
    /\ \E k \in DOMAIN net.reg["B"] :
          net.reg["B"][k].Info.GameName = "g1" /\ net.reg["B"][k].PeerIP = PeerAddr
    /\ \E k \in DOMAIN net.reg["C"] :
          net.reg["C"][k].Info.GameName = "g2" /\ net.reg["C"][k].PeerIP = PeerAddr2
    /\ \E k \in DOMAIN net.reg["C"] :
          net.reg["C"][k].Info.GameName = "g1" /\ net.reg["C"][k].PeerIP = PeerAddr

====
